---- MODULE Spec2Model ----
(***************************************************************************)
(* Model of filter-by-olympics.py: the season-games index built from the   *)
(* results tables, the output cache built from the previous run's matched  *)
(* tables, the rate-limited _fetch, the page scrapers, classify_athletes   *)
(* and write_season_output, run as the module-level script runs them       *)
(* (Winter, then Summer), for several successive runs of the script.       *)
(*                                                                         *)
(* Representation of the values the script handles:                        *)
(*   - an optional value is a sequence of length <= 1: None is <<>> and a  *)
(*     value v is <<v>>;                                                   *)
(*   - an edition string "2018 Winter Olympics" is <<2018, "Winter",       *)
(*     "Olympics">>; "2018 Winter Youth Olympics" has "Youth Olympics" as  *)
(*     its last component;                                                 *)
(*   - the Games field of a CSV row is the sequence of the pieces that     *)
(*     split(";") yields after strip(): the empty string is <<Blank>>;     *)
(*   - the Born and "Used name" fields are sequences of characters;        *)
(*   - a CSV row is a function from column names to values;                *)
(*   - a fetched page is the sequence of (href, text) pairs of its anchors.*)
(***************************************************************************)
EXTENDS Integers, Sequences, FiniteSets, TLC

\* ---------------------------------------------------------------- bounds
MaxRoster     == 2    \* longest all-states roster
MaxElsewhere  == 1    \* longest us-born-elsewhere roster
MaxRuns       == 2    \* successive runs of the script
MaxCandidates == 2    \* athlete-profile links on a search page
MaxCalls      == 3    \* successive _fetch calls followed attempt by attempt
MaxRows       == 2    \* rows of results.csv when the index is built alone
MaxNewRows    == 1    \* rows of 2024-2026-us-results.csv, the same
MaxTableRows  == 2    \* rows of a matched table when the cache is built alone
MaxLinks      == 2    \* anchors of a profile page when games_from_page is run alone
MaxEvents     == 5    \* handler calls made on a LinkTextParser
MaxBorn       == 6    \* characters of a Born field when born_state is run alone
MaxFields     == 3    \* columns of a header line when build_out_row is run alone
MaxResponses  == 3    \* answers _fetch gives when the two scripts are compared
MaxBios       == 3    \* rows of bios.csv when olympians-by-state.py is run

\* ------------------------------------------------------ program constants
REQUEST_DELAY == 4
MAX_DELAY     == 60
MAX_RETRIES   == 6
MIN_YEAR      == 1924

None    == <<>>
Some(v) == <<v>>
Blank   == <<>>

Seasons == {"Winter", "Summer"}

Min(a, b) == IF a <= b THEN a ELSE b

\* ------------------------------------------------------- sequence helpers
RECURSIVE SelectIn(_, _)
\* the elements of s that are in set S, in order (a list comprehension)
SelectIn(s, S) ==
    IF s = <<>> THEN <<>>
    ELSE IF Head(s) \in S THEN <<Head(s)>> \o SelectIn(Tail(s), S)
         ELSE SelectIn(Tail(s), S)

Range(s) == {s[i] : i \in 1..Len(s)}

\* order of edition strings: Python compares the strings character by
\* character; every year has four digits, "Summer" < "Winter" and
\* "Olympics" < "Youth Olympics"
SeasonOrd(x) == IF x = "Summer" THEN 0 ELSE 1
KindOrd(k)   == IF k = "Olympics" THEN 0 ELSE 1
EdLess(a, b) ==
    \/ a[1] < b[1]
    \/ a[1] = b[1] /\ SeasonOrd(a[2]) < SeasonOrd(b[2])
    \/ a[1] = b[1] /\ a[2] = b[2] /\ KindOrd(a[3]) < KindOrd(b[3])

RECURSIVE InsertSorted(_, _)
InsertSorted(e, s) ==
    IF s = <<>> THEN <<e>>
    ELSE IF EdLess(e, Head(s)) THEN <<e>> \o s
         ELSE <<Head(s)>> \o InsertSorted(e, Tail(s))

RECURSIVE Sorted(_)
\* sorted(list) / list.sort(): stable, keeps duplicates
Sorted(s) == IF s = <<>> THEN <<>> ELSE InsertSorted(Head(s), Sorted(Tail(s)))

RECURSIVE Dedup(_)
\* the list without the later occurrences of an element
Dedup(s) ==
    IF s = <<>> THEN <<>>
    ELSE LET d == Dedup(SubSeq(s, 1, Len(s) - 1))
         IN  IF s[Len(s)] \in Range(d) THEN d ELSE Append(d, s[Len(s)])

\* sorted(set(a) | set(b))
SortedUnion(a, b) == Sorted(Dedup(a \o b))

IsSortedSeq(s) == \A i \in 1..(Len(s) - 1) : ~EdLess(s[i + 1], s[i])
NoDupSeq(s)    == \A i, j \in 1..Len(s) : i # j => s[i] # s[j]

\* "; ".join(games): the Games field of an output row
JoinGames(games) == IF games = <<>> THEN <<Blank>> ELSE games

\* [g.strip() for g in games_str.split(";") if g.strip()]
SplitGames(games_str) == SelectIn(games_str, Range(games_str) \ {Blank})

\* ------------------------------------------------------------- characters
UpperChars == {"A", "B", "C", "D", "E", "F", "G", "H", "I", "J", "K", "L", "M",
               "N", "O", "P", "Q", "R", "S", "T", "U", "V", "W", "X", "Y", "Z"}
IsSpace(c) == c = " "

RECURSIVE LStrip(_)
LStrip(s) == IF s # <<>> /\ IsSpace(Head(s)) THEN LStrip(Tail(s)) ELSE s

RECURSIVE RStrip(_)
RStrip(s) ==
    IF s # <<>> /\ IsSpace(s[Len(s)]) THEN RStrip(SubSeq(s, 1, Len(s) - 1)) ELSE s

\* str.strip()
Strip(s) == LStrip(RStrip(s))

RECURSIVE SplitWords(_, _)
\* str.split(): the maximal runs of non-blank characters; cur is the run
\* being read
SplitWords(s, cur) ==
    IF s = <<>> THEN (IF cur = <<>> THEN <<>> ELSE <<cur>>)
    ELSE IF IsSpace(Head(s))
         THEN (IF cur = <<>> THEN <<>> ELSE <<cur>>) \o SplitWords(Tail(s), <<>>)
         ELSE SplitWords(Tail(s), Append(cur, Head(s)))

\* the bullet character U+2022 that joins the tokens of a "Used name"
Bullet == "*"

\* used_name.replace(Bullet, " ").split()
NameParts(used_name) ==
    SplitWords([i \in 1..Len(used_name) |->
                   IF used_name[i] = Bullet THEN " " ELSE used_name[i]], <<>>)

\* variant: the characters between the comma and the "(" may be commas, so
\* that the match starts at the first comma
BornSearchFirstComma(born) ==
    LET t     == RStrip(born)
        n     == Len(t)
        opens == {i \in 1..(n - 2) :
                     /\ t[i] = "("
                     /\ \A k \in (i + 1)..(n - 1) : t[k] \in UpperChars}
        hits  == {pq \in (1..n) \X opens :
                     /\ t[pq[1]] = ","
                     /\ pq[1] + 1 < pq[2]}
    IN  IF n = 0 \/ t[n] # ")" \/ hits = {} THEN None
        ELSE LET pq == CHOOSE h \in hits : \A g \in hits : h[1] <= g[1]
             IN  Some(<<SubSeq(t, pq[1] + 1, pq[2] - 1),
                        SubSeq(t, pq[2] + 1, n - 1)>>)

\* _BORN_RE = ,\s*([^,]+?)\s*\(([A-Z]+)\)\s*$ searched in born.  The match
\* ends with "(", one or more upper-case letters, ")" and blanks up to the
\* end of the string; group 1 and the blanks around it are the characters
\* between the comma and that "(", at least one of them and none a comma.
\* The result is Some(<<group 1, group 2>>), or None without a match.
BornSearch(born) ==
    LET t     == RStrip(born)
        n     == Len(t)
        opens == {i \in 1..(n - 2) :
                     /\ t[i] = "("
                     /\ \A k \in (i + 1)..(n - 1) : t[k] \in UpperChars}
        hits  == {pq \in (1..n) \X opens :
                     /\ t[pq[1]] = ","
                     /\ pq[1] + 1 < pq[2]
                     /\ \A k \in (pq[1] + 1)..(pq[2] - 1) : t[k] # ","}
    IN  IF n = 0 \/ t[n] # ")" \/ hits = {} THEN None
        ELSE LET pq == CHOOSE h \in hits : \A g \in hits : h[1] <= g[1]
             IN  Some(<<SubSeq(t, pq[1] + 1, pq[2] - 1),
                        SubSeq(t, pq[2] + 1, n - 1)>>)

\* born_state(row)
born_state(row) ==
    LET m == BornSearch(row["Born"])
    IN  IF m # None THEN Strip(m[1][1]) ELSE <<"U", "n", "k", "n", "o", "w", "n">>

\* order of state names in sorted(states_list): the code points of the
\* characters the model's state names use
CharOrd(c) ==
    CASE c = " " -> 32 [] c = "I" -> 73 [] c = "M" -> 77 [] c = "U" -> 85
      [] c = "d" -> 100 [] c = "k" -> 107 [] c = "n" -> 110 [] c = "o" -> 111
      [] c = "t" -> 116 [] c = "w" -> 119 [] OTHER -> 0

RECURSIVE StrLess(_, _)
StrLess(a, b) ==
    IF b = <<>> THEN FALSE
    ELSE IF a = <<>> THEN TRUE
    ELSE IF Head(a) = Head(b) THEN StrLess(Tail(a), Tail(b))
    ELSE CharOrd(Head(a)) < CharOrd(Head(b))

RECURSIVE InsertState(_, _)
InsertState(e, s) ==
    IF s = <<>> THEN <<e>>
    ELSE IF StrLess(e, Head(s)) THEN <<e>> \o s
         ELSE <<Head(s)>> \o InsertState(e, Tail(s))

RECURSIVE SortedStates(_)
\* sorted(states_list)
SortedStates(s) ==
    IF s = <<>> THEN <<>> ELSE InsertState(Head(s), SortedStates(Tail(s)))

\* ----------------------------------------------------------- CSV rows
\* make_out_fields(fieldnames)
make_out_fields(fieldnames) ==
    IF "Roles" \in Range(fieldnames)
    THEN LET i == CHOOSE k \in 1..Len(fieldnames) :
                      /\ fieldnames[k] = "Roles"
                      /\ \A j \in 1..(k - 1) : fieldnames[j] # "Roles"
         IN  [fieldnames EXCEPT ![i] = "Games"]
    ELSE IF "Games" \notin Range(fieldnames) THEN <<"Games">> \o fieldnames
    ELSE fieldnames

\* variant: the Games column keeps what the input record holds for it
build_out_rowKeepGames(row, games_str, out_fields) ==
    [k \in Range(out_fields) |->
        IF k = "Games" /\ k \notin DOMAIN row THEN games_str
        ELSE IF k \in DOMAIN row THEN row[k] ELSE ""]

\* build_out_row(row, games_str, out_fields)
build_out_row(row, games_str, out_fields) ==
    [k \in Range(out_fields) |->
        IF k = "Games" THEN games_str
        ELSE IF k \in DOMAIN row THEN row[k] ELSE ""]

\* str(row.get("athlete_id", "")).strip(): the identifiers of the model
\* carry no blanks
RowId(row) == IF "athlete_id" \in DOMAIN row THEN row["athlete_id"] ELSE ""

\* ------------------------------------------------- season-games index
\* variant: what stands between the season and the end is not looked at
SeasonReAnyKind(games, season) ==
    /\ Len(games) = 3
    /\ games[1] \in 1000..9999
    /\ games[2] = season

\* _WINTER_RE / _SUMMER_RE = ^\d{4} <Season> Olympics$
SeasonRe(games, season) ==
    /\ Len(games) = 3
    /\ games[1] \in 1000..9999
    /\ games[2] = season
    /\ games[3] = "Olympics"

\* lines 170-173: the edition is appended to the athlete's list for the
\* season when it matches, is not before MIN_YEAR and is not yet listed
AddGames(lookup, aid, games, season) ==
    IF SeasonRe(games, season) /\ games[1] >= MIN_YEAR
    THEN IF aid \notin DOMAIN lookup THEN lookup @@ (aid :> <<games>>)
         ELSE IF games \in Range(lookup[aid]) THEN lookup
         ELSE [lookup EXCEPT ![aid] = Append(@, games)]
    ELSE lookup

RECURSIVE ReadResultsSeenIfMatch(_, _)
\* variant: an identifier is seen only when its row adds an edition
ReadResultsSeenIfMatch(rows, ix) ==
    IF rows = <<>> THEN ix
    ELSE LET row == Head(rows)
             aid == RowId(row)
             w   == AddGames(ix.winter_lookup, aid, row["Games"], "Winter")
             su  == AddGames(ix.summer_lookup, aid, row["Games"], "Summer")
         IN  IF aid = "" THEN ReadResultsSeenIfMatch(Tail(rows), ix)
             ELSE ReadResultsSeenIfMatch(Tail(rows),
                     [seen_ids      |-> IF w # ix.winter_lookup \/ su # ix.summer_lookup
                                        THEN ix.seen_ids \cup {aid} ELSE ix.seen_ids,
                      winter_lookup |-> w,
                      summer_lookup |-> su])

RECURSIVE ReadResults(_, _)
\* the loop over the rows of one results table (lines 164-173, 190-199);
\* ix is [seen_ids, winter_lookup, summer_lookup]
ReadResults(rows, ix) ==
    IF rows = <<>> THEN ix
    ELSE LET row == Head(rows)
             aid == RowId(row)
         IN  IF aid = "" THEN ReadResults(Tail(rows), ix)
             ELSE ReadResults(Tail(rows),
                     [seen_ids      |-> ix.seen_ids \cup {aid},
                      winter_lookup |-> AddGames(ix.winter_lookup, aid, row["Games"], "Winter"),
                      summer_lookup |-> AddGames(ix.summer_lookup, aid, row["Games"], "Summer")])

\* for aid in lookup: lookup[aid].sort()
SortLookup(lookup) == [a \in DOMAIN lookup |-> Sorted(lookup[a])]

\* variant: the lists stay in the order of the rows
SortIndexNone(ix) == ix

SortIndex(ix) ==
    [seen_ids      |-> ix.seen_ids,
     winter_lookup |-> SortLookup(ix.winter_lookup),
     summer_lookup |-> SortLookup(ix.summer_lookup)]

EmptyMap == [a \in {} |-> <<>>]

\* lines 159-206: results.csv, then 2024-2026-us-results.csv if present
\* (new_results is None when the file does not exist)
BuildIndex(results, new_results) ==
    LET first == SortIndex(ReadResults(results,
                     [seen_ids |-> {}, winter_lookup |-> EmptyMap,
                      summer_lookup |-> EmptyMap]))
    IN  IF new_results # None
        THEN SortIndex(ReadResults(new_results[1], first))
        ELSE first

\* ------------------------------------------------------- output cache
MatchedFiles == <<"all-states.csv", "us-born-elsewhere.csv">>

\* variant of _add: the editions read are dropped
CacheAddEmpty(cache, aid, season, games) ==
    LET c0 == IF aid \in DOMAIN cache THEN cache
              ELSE cache @@ (aid :> [Winter |-> None, Summer |-> None])
    IN  [c0 EXCEPT ![aid][season] = Some(<<>>)]

\* variant of _add: a later row of an athlete replaces the earlier ones
CacheAddReplace(cache, aid, season, games) ==
    LET c0 == IF aid \in DOMAIN cache THEN cache
              ELSE cache @@ (aid :> [Winter |-> None, Summer |-> None])
    IN  [c0 EXCEPT ![aid][season] = Some(Sorted(games))]

\* build_output_cache._add
CacheAdd(cache, aid, season, games) ==
    LET c0 == IF aid \in DOMAIN cache THEN cache
              ELSE cache @@ (aid :> [Winter |-> None, Summer |-> None])
        existing == c0[aid][season]
    IN  IF existing = None
        THEN [c0 EXCEPT ![aid][season] = Some(Sorted(games))]
        ELSE [c0 EXCEPT ![aid][season] = Some(SortedUnion(existing[1], games))]

RECURSIVE CacheReadRowsSkipEmpty(_, _, _)
\* variant: a row with an empty Games field is skipped
CacheReadRowsSkipEmpty(rows, season, cache) ==
    IF rows = <<>> THEN cache
    ELSE LET aid == RowId(Head(rows))
         IN  IF aid = "" \/ SplitGames(Head(rows)["Games"]) = <<>>
             THEN CacheReadRowsSkipEmpty(Tail(rows), season, cache)
             ELSE CacheReadRowsSkipEmpty(Tail(rows), season,
                     CacheAdd(cache, aid, season, SplitGames(Head(rows)["Games"])))

RECURSIVE CacheReadRows(_, _, _)
\* lines 239-245: the rows of one matched table
CacheReadRows(rows, season, cache) ==
    IF rows = <<>> THEN cache
    ELSE LET aid == RowId(Head(rows))
         IN  IF aid = "" THEN CacheReadRows(Tail(rows), season, cache)
             ELSE CacheReadRows(Tail(rows), season,
                     CacheAdd(cache, aid, season, SplitGames(Head(rows)["Games"])))

\* variant: no-match.csv is read as a matched table too
CacheReadSeasonNoMatch(dir, season, cache) ==
    LET c1 == IF dir["all-states.csv"] = None THEN cache
              ELSE CacheReadRows(dir["all-states.csv"][1], season, cache)
        c2 == IF dir["us-born-elsewhere.csv"] = None THEN c1
              ELSE CacheReadRows(dir["us-born-elsewhere.csv"][1], season, c1)
    IN  IF dir["no-match.csv"] = None THEN c2
        ELSE CacheReadRows(dir["no-match.csv"][1], season, c2)

\* variant: a missing all-states.csv ends the reading of the directory
CacheReadSeasonStopAtMissing(dir, season, cache) ==
    IF dir["all-states.csv"] = None THEN cache
    ELSE LET c1 == CacheReadRows(dir["all-states.csv"][1], season, cache)
         IN  IF dir["us-born-elsewhere.csv"] = None THEN c1
             ELSE CacheReadRows(dir["us-born-elsewhere.csv"][1], season, c1)

\* variant: the rows of a directory are recorded under both seasons
CacheReadSeasonBothSeasons(dir, season, cache) ==
    LET c1 == IF dir["all-states.csv"] = None THEN cache
              ELSE CacheReadRows(dir["all-states.csv"][1], "Winter",
                       CacheReadRows(dir["all-states.csv"][1], "Summer", cache))
    IN  IF dir["us-born-elsewhere.csv"] = None THEN c1
        ELSE CacheReadRows(dir["us-born-elsewhere.csv"][1], "Winter",
                 CacheReadRows(dir["us-born-elsewhere.csv"][1], "Summer", c1))

\* lines 234-245 for one (out_dir, season): a missing file is skipped
CacheReadSeason(dir, season, cache) ==
    LET c1 == IF dir["all-states.csv"] = None THEN cache
              ELSE CacheReadRows(dir["all-states.csv"][1], season, cache)
    IN  IF dir["us-born-elsewhere.csv"] = None THEN c1
        ELSE CacheReadRows(dir["us-born-elsewhere.csv"][1], season, c1)

\* variant: only the Summer directory is read
build_output_cacheSummerOnly(disk) ==
    CacheReadSeason(disk["Summer"], "Summer", EmptyMap)

\* variant: the output directories are not read
build_output_cacheNone(disk) == EmptyMap

\* build_output_cache(): disk maps a season to the files of its output
\* directory
build_output_cache(disk) ==
    CacheReadSeason(disk["Summer"], "Summer",
        CacheReadSeason(disk["Winter"], "Winter", EmptyMap))

\* the rows of file f of a season directory, none when it is missing
FileRows(dir, f) == IF dir[f] = None THEN <<>> ELSE dir[f][1]

\* the identifiers of the rows of a season's matched tables
MatchedIds(dir) ==
    {RowId(r) : r \in Range(FileRows(dir, "all-states.csv"))
                        \cup Range(FileRows(dir, "us-born-elsewhere.csv"))}

\* variant: the cache answers unseen for every athlete
CacheGetUnseen(cache, aid, season) == None

\* _output_cache.get(aid, {}).get(season)
CacheGet(cache, aid, season) ==
    IF aid \in DOMAIN cache THEN cache[aid][season] ELSE None


\* ------------------------------------------------------------ the scrapers
\* A link of a parsed page is [href |-> <<dir, id, rest>>, text |-> [pre, ed]]:
\* href "/editions/62" is <<"editions", "62", "">>, "/athletes/7/results" is
\* <<"athletes", "7", "/results">>; the text is the characters pre followed
\* by the edition string ed (NoEd when the text holds none).  An anchor
\* without href attribute has the href "", the triple of empty strings; one
\* whose href attribute has no value has the href None (line 65:
\* attrs_dict.get("href", "") finds the key, with the value None).
NoEd == <<0, "", "">>

\* what may follow the season in a link text that goes on with "Olympics"
OlympicsPrefixed == {"Olympics", "Olympics (demonstration)"}

\* the loops over parser.links apply a string operation to every href they
\* come to: href.startswith (line 118) and re.match (line 138) raise for
\* the href None, and nothing catches the exception
PageRaises(links) == \E i \in DOMAIN links : links[i].href = None

\* the place of an href None among the candidates of a search page
RaiseMark == "TypeError"

DigitStrings == {ToString(k) : k \in 0..99}

\* href.startswith("/editions/")
IsEditionHref(href) == href[1] = "editions"

\* re.match(r"^/athletes/(\d+)$", href)
IsAthleteHref(href) ==
    href[1] = "athletes" /\ href[2] \in DigitStrings /\ href[3] = ""

\* label in text and re.match(rf"(\d{4} {season} Olympics)", text): the
\* text starts with a four-digit year, the season and "Olympics"
TextEdition(text, season) ==
    IF /\ text.ed[2] = season
       /\ text.ed[3] \in OlympicsPrefixed
       /\ text.pre = ""
       /\ text.ed[1] \in 1000..9999
    THEN Some(<<text.ed[1], season, "Olympics">>)
    ELSE None

RECURSIVE PageGamesAnyYear(_, _, _)
\* variant: the year of the edition is not compared with MIN_YEAR
PageGamesAnyYear(links, season, games) ==
    IF links = <<>> THEN games
    ELSE LET l == Head(links)
             m == TextEdition(l.text, season)
         IN  IF /\ IsEditionHref(l.href)
                /\ m # None
                /\ m[1] \notin Range(games)
             THEN PageGamesAnyYear(Tail(links), season, Append(games, m[1]))
             ELSE PageGamesAnyYear(Tail(links), season, games)

RECURSIVE PageGames(_, _, _)
\* the loop of games_from_page over parser.links (lines 116-121)
PageGames(links, season, games) ==
    IF links = <<>> THEN games
    ELSE LET l == Head(links)
             m == TextEdition(l.text, season)
         IN  IF /\ IsEditionHref(l.href)
                /\ m # None
                /\ m[1][1] >= MIN_YEAR
                /\ m[1] \notin Range(games)
             THEN PageGames(Tail(links), season, Append(games, m[1]))
             ELSE PageGames(Tail(links), season, games)

\* games_from_page after _fetch has returned html (None on failure)
games_from_page(html, season) ==
    IF html = None THEN None
    ELSE Some(Sorted(PageGames(html[1], season, <<>>)))

RECURSIVE CandidatesPrefix(_)
\* variant: the pattern is not anchored at the end, so that every href that
\* starts with /athletes/ and digits is a candidate
CandidatesPrefix(links) ==
    IF links = <<>> THEN <<>>
    ELSE IF Head(links).href = None THEN <<RaiseMark>>
    ELSE IF Head(links).href[1] = "athletes" /\ Head(links).href[2] \in DigitStrings
         THEN <<Head(links).href[2]>> \o CandidatesPrefix(Tail(links))
         ELSE CandidatesPrefix(Tail(links))

RECURSIVE Candidates(_)
\* the athlete identifiers of the links of a search page that
\* search_and_find_season tries, in document order (lines 137-139); the
\* loop ends at a link whose href is None
Candidates(links) ==
    IF links = <<>> THEN <<>>
    ELSE IF Head(links).href = None THEN <<RaiseMark>>
    ELSE IF IsAthleteHref(Head(links).href)
         THEN <<Head(links).href[2]>> \o Candidates(Tail(links))
         ELSE Candidates(Tail(links))

ProfileUrl(aid)  == [kind |-> "athletes", id |-> aid, query |-> <<>>]
SearchUrl(parts) == [kind |-> "quick_search", id |-> "", query |-> parts]

\* --------------------------------------------------------- LinkTextParser
\* The parser p is [_in_a, _buf, links, _href]; attrs maps the attribute
\* names of a start tag to their values, None for an attribute without
\* value; a piece of character data is a sequence of characters; a link is
\* the pair <<href, text>>.
EmptyHref == <<"", "", "">>

\* dict(attrs).get("href", "")
HrefAttr(attrs) == IF "href" \in DOMAIN attrs THEN attrs["href"] ELSE EmptyHref

RECURSIVE JoinData(_)
\* "".join(buf)
JoinData(buf) == IF buf = <<>> THEN <<>> ELSE Head(buf) \o JoinData(Tail(buf))

\* variant: the text read before the start tag is kept
handle_starttagKeepBuf(p, tag, attrs) ==
    IF tag = "a"
    THEN [p EXCEPT !._in_a = TRUE, !._href = HrefAttr(attrs)]
    ELSE p

\* LinkTextParser.handle_starttag (lines 60-65)
handle_starttag(p, tag, attrs) ==
    IF tag = "a"
    THEN [p EXCEPT !._in_a = TRUE, !._buf = <<>>, !._href = HrefAttr(attrs)]
    ELSE p

\* LinkTextParser.handle_endtag (lines 67-71)
handle_endtag(p, tag) ==
    IF tag = "a" /\ p._in_a
    THEN [p EXCEPT !.links = Append(@, <<p._href, Strip(JoinData(p._buf))>>),
                   !._in_a = FALSE,
                   !._buf = <<>>]
    ELSE p

\* LinkTextParser.handle_data (lines 73-75)
handle_data(p, data) ==
    IF p._in_a THEN [p EXCEPT !._buf = Append(@, data)] ELSE p

\* the handler call ev is added to the record of the calls made on p
Fed(p, ev) == [p EXCEPT !.fed = Append(@, ev)]

\* ------------------------------------------------------------ model inputs
EdLink(pre, year, season, kind) ==
    [href |-> <<"editions", "62", "">>, text |-> [pre |-> pre, ed |-> <<year, season, kind>>]]

AthleteLink(aid, rest) ==
    [href |-> <<"athletes", aid, rest>>, text |-> [pre |-> "A B", ed |-> NoEd]]

\* profile pages the site may answer with
PageGamesBoth ==
    <<EdLink("", 2022, "Winter", "Olympics"), EdLink("", 2020, "Summer", "Olympics"),
      EdLink("", 2018, "Winter", "Olympics"), EdLink("", 2022, "Winter", "Olympics")>>
\* an anchor written <a href>: the attribute has no value
BareLink == [href |-> None, text |-> [pre |-> "A B", ed |-> NoEd]]

PageBareHref == <<EdLink("", 2022, "Winter", "Olympics"), BareLink>>

PageNoGames ==
    <<EdLink("", 1920, "Summer", "Olympics"), EdLink("", 2020, "Winter", "Youth Olympics"),
      EdLink("in ", 2018, "Winter", "Olympics"),
      [href |-> <<"countries", "USA", "">>,
       text |-> [pre |-> "", ed |-> <<2018, "Summer", "Olympics">>]]>>
ProfilePages == {PageGamesBoth, PageNoGames, PageBareHref}

\* search pages: a link that is no athlete profile, then n profile links
SearchPage(n) ==
    <<AthleteLink("7", "/results")>> \o [k \in 1..n |-> AthleteLink(ToString(6 + k), "")]
SearchPages ==
    {SearchPage(n) : n \in 0..MaxCandidates} \cup {<<AthleteLink("7", ""), BareLink>>}

PagesFor(url) == IF url.kind = "athletes" THEN ProfilePages ELSE SearchPages

StateMt == <<"M", "t">>
StateId == <<"I", "d">>
BornMt     == <<"H", ",", " ", "M", "t", " ", "(", "U", "S", "A", ")">>
BornId     == <<"B", ",", " ", "I", "d", " ", "(", "U", "S", "A", ")">>
BornAbroad == <<"i", "n", " ", "P", " ", "(", "F", "R", "A", ")">>
NameAB     == <<"A", Bullet, "B">>
NameBlank  == <<Bullet, " ">>

InFields == <<"athlete_id", "Used name", "Born", "Roles">>

Athlete(aid, name, born) ==
    [k \in Range(InFields) |->
        CASE k = "athlete_id" -> aid
          [] k = "Used name"  -> name
          [] k = "Born"       -> born
          [] OTHER            -> "Competed in Olympic Games"]

StateRecords ==
    {Athlete("1", NameAB, BornMt), Athlete("1", NameAB, BornId),
     Athlete("1", NameAB, BornAbroad), Athlete("2", NameAB, BornMt),
     Athlete("", NameBlank, BornId)}
ElsewhereRecords == {Athlete("", NameAB, BornAbroad)}

SeqsUpTo(S, lo, hi) == UNION {[1..n -> S] : n \in lo..hi}

ResultRow(aid, year, season, kind) ==
    [athlete_id |-> aid, Games |-> <<year, season, kind>>]

\* (results.csv, 2024-2026-us-results.csv or None)
ResultsInputs ==
    {<< <<ResultRow("1", 2022, "Winter", "Olympics"), ResultRow("", 2018, "Winter", "Olympics"),
          ResultRow("1", 2018, "Winter", "Olympics")>>, None >>,
     << <<ResultRow("1", 2020, "Summer", "Olympics")>>,
        Some(<<ResultRow("3", 2020, "Winter", "Youth Olympics")>>) >>}

OutFields == make_out_fields(InFields)

NoDir ==
    [f \in {"all-states.csv", "us-born-elsewhere.csv", "no-match.csv", "count.csv",
            "by-state"} |-> None]

\* output directories left by earlier runs: none, or matched tables that
\* list athletes 1 and 2
PriorDisks ==
    {[Winter |-> NoDir, Summer |-> NoDir],
     [Winter |-> [NoDir EXCEPT !["all-states.csv"] =
                     Some(<<build_out_row(Athlete("2", NameAB, BornMt),
                                <<<<2022, "Winter", "Olympics">>, Blank,
                                  <<2018, "Winter", "Olympics">>>>, OutFields),
                            build_out_row(Athlete("1", NameAB, BornMt),
                                <<<<1994, "Winter", "Olympics">>>>, OutFields)>>)],
      Summer |-> [NoDir EXCEPT !["us-born-elsewhere.csv"] =
                     Some(<<build_out_row(Athlete("2", NameAB, BornMt),
                                <<Blank>>, OutFields)>>)]]}

\* the results rows the index is built from when it is checked alone: with
\* and without identifier, editions before and from MIN_YEAR, of both
\* seasons, a Youth edition and one written in lower case
IndexEditions ==
    {<<1920, "Winter", "Olympics">>, <<1924, "Winter", "Olympics">>,
     <<2022, "Winter", "Olympics">>, <<1924, "Winter", "Youth Olympics">>,
     <<2022, "winter", "Olympics">>, <<2020, "Summer", "Olympics">>}

IndexRows ==
    {[athlete_id |-> aid, Games |-> e] : aid \in {"", "1"}, e \in IndexEditions}

\* (results.csv, 2024-2026-us-results.csv or None)
IndexInputs ==
    {<<r, n>> : r \in SeqsUpTo(IndexRows, 0, MaxRows),
                n \in {None} \cup {Some(t) : t \in SeqsUpTo(IndexRows, 0, MaxNewRows)}}

\* the rows of the matched tables the cache is built from when it is checked
\* alone: with and without identifier, with editions, with an empty Games
\* field and with an empty piece between editions
CacheRows ==
    {build_out_row(Athlete(aid, NameAB, BornMt), g, OutFields) :
        aid \in {"", "1"},
        g \in {<<Blank>>, <<<<2022, "Winter", "Olympics">>>>,
               <<<<2022, "Winter", "Olympics">>, Blank, <<2018, "Winter", "Olympics">>>>}}

\* a matched table: missing, or up to MaxTableRows rows
CacheTables == {None} \cup {Some(t) : t \in SeqsUpTo(CacheRows, 0, MaxTableRows)}

\* the output directories: the Winter matched tables vary, the Summer
\* directory is missing or holds one row
CacheDisks ==
    {[Winter |-> [NoDir EXCEPT !["all-states.csv"] = a, !["us-born-elsewhere.csv"] = e],
      Summer |-> [NoDir EXCEPT !["all-states.csv"] = su]] :
        a \in CacheTables, e \in CacheTables,
        su \in {None, Some(<<build_out_row(Athlete("1", NameAB, BornMt),
                                  <<<<2020, "Summer", "Olympics">>>>, OutFields)>>)}}


\* the anchors of the profile pages games_from_page is run on alone: edition
\* links of both seasons, at MIN_YEAR and before it, with text after
\* "Olympics", with text before the year, of the Youth games, a link with
\* the text of an edition that is no edition link, and an anchor whose href
\* has no value
PageLinks ==
    {EdLink("", 2022, "Winter", "Olympics"),
     EdLink("", 1924, "Winter", "Olympics (demonstration)"),
     EdLink("", 1920, "Winter", "Olympics"),
     EdLink("", 2020, "Summer", "Olympics"),
     EdLink("", 2022, "Winter", "Youth Olympics"),
     EdLink("in ", 2022, "Winter", "Olympics"),
     [href |-> <<"countries", "USA", "">>,
      text |-> [pre |-> "", ed |-> <<2022, "Winter", "Olympics">>]],
     BareLink}

\* what _fetch may return to games_from_page: None, or a page
PageInputs == {None} \cup {Some(l) : l \in SeqsUpTo(PageLinks, 0, MaxLinks)}

\* the handler calls made on a parser that is followed alone: start tags of
\* an anchor with an href, without one, with an href without value, and of
\* another element; end tags of both; character data, blank and not
AnchorAttrs ==
    {("href" :> <<"editions", "62", "">>), ("href" :> <<"athletes", "7", "">>),
     ("class" :> "nav"), ("href" :> None)}

StartTags == {<<"a", attrs>> : attrs \in AnchorAttrs} \cup {<<"b", ("class" :> "nav")>>}

EndTags == {"a", "b"}

DataPieces == {<<"x">>, <<" ">>}

\* the column names of the header lines given to make_out_fields
FieldNames == {"athlete_id", "Born", "Roles", "Games"}

\* reader.fieldnames of a roster file (line 358)
FieldLists == SeqsUpTo(FieldNames, 0, MaxFields)

\* the rows csv.DictReader gives for a roster file: a value for each column
\* of that file, which need not be the file the header line was taken from
RowInputs == UNION {[cols -> {"v", "w"}] : cols \in SUBSET FieldNames}

\* the Born fields born_state is run on alone: the two of the
\* specification, and every string of up to MaxBorn characters of BornChars
BornHelena ==
    <<"1", "2", " ", "M", "a", "y", " ", "1", "9", "9", "0", " ", "i",
    "n", " ", "H", "e", "l", "e", "n", "a", ",", " ", "M", "o", "n", "t",
    "a", "n", "a", " ", "(", "U", "S", "A", ")">>

BornParis == <<"i", "n", " ", "P", "a", "r", "i", "s", " ", "(", "F", "R", "A", ")">>

BornChars == {",", " ", "(", ")", "U", "m"}

BornInputs == {BornHelena, BornParis} \cup SeqsUpTo(BornChars, 0, MaxBorn)

\* ------------------------------------------------------------------- state
VARIABLES
    input,           \* the input tables: rosters, results tables, states list
    disk,            \* the season output directories and their files
    seen_ids,        \* module globals of the running script
    winter_lookup,
    summer_lookup,
    _output_cache,
    _current_delay,
    run,             \* number of the current run of the script
    pc,              \* position of the script
    stage,           \* position in Stages
    script,          \* what the classify_athletes calls of this run returned
    cl,              \* locals of the running classify_athletes call
    call,            \* which function is waiting for _fetch to return
    cands,           \* search_and_find_season: the candidates not yet tried
    url,             \* the argument of the _fetch call
    html,            \* the value _fetch returned
    games,           \* the value the live resolution returned
    trace,           \* per input record: how the current call resolved it
    ft,              \* locals of a _fetch call followed attempt by attempt
    exhausted,       \* the latest such call ran out of retries
    calls,           \* number of such calls so far
    interrupted,     \* what the run that was killed had scraped
    parser,          \* a LinkTextParser, followed handler call by handler call
    built,           \* the latest build_out_row call: arguments and result
    compared,        \* filter-winter.py and this script run on the same inputs
    bystate          \* olympians-by-state.py: its input and its two collections

pipeline == <<input, disk, seen_ids, winter_lookup, summer_lookup, _output_cache,
              run, stage, script, cl, call, cands, url, games, trace>>

fetcher == <<ft, exhausted, calls>>

vars == <<input, disk, seen_ids, winter_lookup, summer_lookup, _output_cache,
          _current_delay, run, pc, stage, script, cl, call, cands, url, html,
          games, trace, ft, exhausted, calls, interrupted, parser, built, compared, bystate>>

\* variant: the calls for the two seasons alternate
StagesAlternating ==
    <<[season |-> "Winter", what |-> "states"],
      [season |-> "Summer", what |-> "elsewhere"],
      [season |-> "Winter", what |-> "write"],
      [season |-> "Summer", what |-> "states"],
      [season |-> "Winter", what |-> "elsewhere"],
      [season |-> "Summer", what |-> "write"]>>

\* the module-level script, lines 448-492
Stages ==
    <<[season |-> "Winter", what |-> "states"],
      [season |-> "Winter", what |-> "elsewhere"],
      [season |-> "Winter", what |-> "write"],
      [season |-> "Summer", what |-> "states"],
      [season |-> "Summer", what |-> "elsewhere"],
      [season |-> "Summer", what |-> "write"]>>

Season == Stages[stage].season

Athletes ==
    IF Stages[stage].what = "states" THEN input.all_states_athletes
    ELSE input.elsewhere_athletes

Lookup == IF Season = "Winter" THEN winter_lookup ELSE summer_lookup

\* lookup.get(aid, [])
LookupGet(lookup, aid) == IF aid \in DOMAIN lookup THEN lookup[aid] ELSE <<>>

\* key = state_key_fn(row) if state_key_fn else ""
StateKey(row) == IF Stages[stage].what = "states" THEN born_state(row) ELSE <<>>

EmptyGamesStr == <<Blank>>

NoUrl == ProfileUrl("")

NoFetch == [url |-> NoUrl, delay |-> 0, attempt |-> 0, slept |-> <<>>,
            answers |-> <<>>]

NoClassify ==
    [i |-> 1, j |-> 1, season_rows |-> <<>>, no_match_rows |-> <<>>,
     needs_scrape |-> <<>>, from_cache |-> 0]

NoTrace ==
    [how |-> <<>>, need_idx |-> <<>>, rows_of |-> <<>>, nm_of |-> <<>>,
     result |-> <<>>, fetched |-> <<>>, nfetch |-> 0,
     searched |-> None, tried |-> <<>>, pages |-> <<>>]

\* LinkTextParser.__init__ (lines 53-58); fed is the record of the handler
\* calls made so far
LinkTextParser ==
    [_in_a |-> FALSE, _buf |-> <<>>, links |-> <<>>, _href |-> None, fed |-> <<>>]

\* no run has been killed
NoInterrupt == [run |-> 0, unwritten |-> {}, written |-> {}]

NoScript == [s \in {1, 2, 4, 5} |-> [season_rows |-> <<>>, no_match_rows |-> <<>>]]

\* a process of the script starts
Start ==
    /\ seen_ids = {}
    /\ winter_lookup = EmptyMap
    /\ summer_lookup = EmptyMap
    /\ _output_cache = EmptyMap
    /\ _current_delay = REQUEST_DELAY
    /\ run = 1
    /\ stage = 1
    /\ script = NoScript
    /\ cl = NoClassify
    /\ call = "none"
    /\ cands = <<>>
    /\ url = NoUrl
    /\ html = None
    /\ games = None
    /\ trace = NoTrace
    /\ ft = NoFetch
    /\ exhausted = FALSE
    /\ calls = 0
    /\ interrupted = NoInterrupt
    /\ parser = LinkTextParser
    /\ built = None
    /\ compared = None
    /\ bystate = None

Init ==
    /\ \E a \in SeqsUpTo(StateRecords, 1, MaxRoster),
          e \in SeqsUpTo(ElsewhereRecords, 0, MaxElsewhere),
          r \in ResultsInputs :
          input = [all_states_athletes |-> a, elsewhere_athletes |-> e,
                   results |-> r[1], new_results |-> r[2],
                   states_list |-> <<StateMt, StateId>>]
    /\ disk \in PriorDisks
    /\ pc = "index"
    /\ Start

\* ------------------------------------------------------ index and cache
\* lines 159-206
BuildLookups ==
    /\ pc = "index"
    /\ LET ix == BuildIndex(input.results, input.new_results)
       IN  /\ seen_ids' = ix.seen_ids
           /\ winter_lookup' = ix.winter_lookup
           /\ summer_lookup' = ix.summer_lookup
    /\ pc' = "cache"
    /\ UNCHANGED <<input, disk, _output_cache, _current_delay, run, stage, script,
                   cl, call, cands, url, html, games, trace>>
    /\ UNCHANGED <<fetcher, interrupted, parser, built, compared, bystate>>

\* lines 257-258
BuildCache ==
    /\ pc = "cache"
    /\ _output_cache' = build_output_cache(disk)
    /\ pc' = "stage"
    /\ stage' = 1
    /\ UNCHANGED <<input, disk, seen_ids, winter_lookup, summer_lookup,
                   _current_delay, run, script, cl, call, cands, url, html, games,
                   trace>>
    /\ UNCHANGED <<fetcher, interrupted, parser, built, compared, bystate>>

\* --------------------------------------------------- classify_athletes
\* ----------------------------------- variants of the first-pass branch
\* the cache is asked before the index
ResolveCacheFirst(aid, season, seen, lookup, cache) ==
    IF CacheGet(cache, aid, season) # None
    THEN [how |-> "cached", games |-> Sorted(cache[aid][season][1]),
          emit |-> cache[aid][season][1] # <<>>]
    ELSE IF aid \in seen
    THEN [how |-> "known", games |-> LookupGet(lookup, aid),
          emit |-> LookupGet(lookup, aid) # <<>>]
    ELSE [how |-> "scrape", games |-> <<>>, emit |-> FALSE]

\* an indexed athlete without edition of the season falls through to the
\* cache and the scrape
ResolveKnownFallsThrough(aid, season, seen, lookup, cache) ==
    IF aid \in seen /\ LookupGet(lookup, aid) # <<>>
    THEN [how |-> "known", games |-> LookupGet(lookup, aid), emit |-> TRUE]
    ELSE IF CacheGet(cache, aid, season) # None
    THEN [how |-> "cached", games |-> Sorted(cache[aid][season][1]),
          emit |-> cache[aid][season][1] # <<>>]
    ELSE [how |-> "scrape", games |-> <<>>, emit |-> FALSE]

\* the cache is not asked at all
ResolveIgnoreCache(aid, season, seen, lookup, cache) ==
    IF aid \in seen
    THEN [how |-> "known", games |-> LookupGet(lookup, aid),
          emit |-> LookupGet(lookup, aid) # <<>>]
    ELSE [how |-> "scrape", games |-> <<>>, emit |-> FALSE]

\* a season row is appended whether or not the edition list is empty
ResolveEmitEmpty(aid, season, seen, lookup, cache) ==
    IF aid \in seen
    THEN [how |-> "known", games |-> LookupGet(lookup, aid), emit |-> TRUE]
    ELSE IF CacheGet(cache, aid, season) # None
    THEN [how |-> "cached", games |-> Sorted(cache[aid][season][1]), emit |-> TRUE]
    ELSE [how |-> "scrape", games |-> <<>>, emit |-> FALSE]

\* lines 296-314 for one record: which branch is taken (how), the edition
\* list it uses (games) and whether a season row is appended (emit)
Resolve(aid, season, seen, lookup, cache) ==
    IF aid \in seen
    THEN [how |-> "known", games |-> LookupGet(lookup, aid),
          emit |-> LookupGet(lookup, aid) # <<>>]
    ELSE IF CacheGet(cache, aid, season) # None
    THEN [how |-> "cached", games |-> Sorted(cache[aid][season][1]),
          emit |-> cache[aid][season][1] # <<>>]
    ELSE [how |-> "scrape", games |-> <<>>, emit |-> FALSE]

\* lines 289-292: a call of classify_athletes starts
ClassifyBegin ==
    /\ pc = "stage"
    /\ Stages[stage].what # "write"
    /\ cl' = NoClassify
    /\ trace' = [NoTrace EXCEPT !.how = [k \in 1..Len(Athletes) |-> "pending"],
                                !.result = [k \in 1..Len(Athletes) |-> None],
                                !.fetched = [k \in 1..Len(Athletes) |-> FALSE]]
    /\ pc' = "loop"
    /\ UNCHANGED <<input, disk, seen_ids, winter_lookup, summer_lookup,
                   _output_cache, _current_delay, run, stage, script, call, cands,
                   url, html, games>>
    /\ UNCHANGED <<fetcher, interrupted, parser, built, compared, bystate>>

\* variant: looking up an identifier that a lookup does not hold leaves an
\* empty list for it in the lookup
ClassifyRowInsertsDefault ==
    /\ pc = "loop"
    /\ cl.i <= Len(Athletes)
    /\ LET row == Athletes[cl.i]
           aid == RowId(row)
           r   == Resolve(aid, Season, seen_ids, Lookup, _output_cache)
           got == IF aid \in seen_ids /\ aid \notin DOMAIN Lookup
                  THEN [a \in DOMAIN Lookup \cup {aid} |->
                           IF a = aid THEN <<>> ELSE Lookup[a]]
                  ELSE Lookup
       IN  /\ cl' = [cl EXCEPT
                  !.i = @ + 1,
                  !.season_rows =
                      IF r.emit
                      THEN Append(@, <<StateKey(row),
                                       build_out_row(row, JoinGames(r.games), OutFields)>>)
                      ELSE @,
                  !.from_cache = IF r.how = "cached" THEN @ + 1 ELSE @,
                  !.needs_scrape = IF r.how = "scrape" THEN Append(@, row) ELSE @]
           /\ trace' = [trace EXCEPT
                  !.how[cl.i] = r.how,
                  !.rows_of = IF r.emit THEN Append(@, cl.i) ELSE @,
                  !.need_idx = IF r.how = "scrape" THEN Append(@, cl.i) ELSE @]
           /\ winter_lookup' = IF Season = "Winter" THEN got ELSE winter_lookup
           /\ summer_lookup' = IF Season = "Summer" THEN got ELSE summer_lookup
    /\ UNCHANGED <<input, disk, seen_ids, _output_cache, _current_delay, run, pc,
                   stage, script, call, cands, url, html, games>>
    /\ UNCHANGED <<fetcher, interrupted, parser, built, compared, bystate>>

\* variant: the first loop puts a season row in front of the rows so far
ClassifyRowPrepend ==
    /\ pc = "loop"
    /\ cl.i <= Len(Athletes)
    /\ LET row == Athletes[cl.i]
           aid == RowId(row)
           r   == Resolve(aid, Season, seen_ids, Lookup, _output_cache)
       IN  /\ cl' = [cl EXCEPT
                  !.i = @ + 1,
                  !.season_rows =
                      IF r.emit
                      THEN <<<<StateKey(row),
                               build_out_row(row, JoinGames(r.games), OutFields)>>>> \o @
                      ELSE @,
                  !.from_cache = IF r.how = "cached" THEN @ + 1 ELSE @,
                  !.needs_scrape = IF r.how = "scrape" THEN Append(@, row) ELSE @]
           /\ trace' = [trace EXCEPT
                  !.how[cl.i] = r.how,
                  !.rows_of = IF r.emit THEN Append(@, cl.i) ELSE @,
                  !.need_idx = IF r.how = "scrape" THEN Append(@, cl.i) ELSE @]
    /\ UNCHANGED <<input, disk, seen_ids, winter_lookup, summer_lookup,
                   _output_cache, _current_delay, run, pc, stage, script, call,
                   cands, url, html, games>>
    /\ UNCHANGED <<fetcher, interrupted, parser, built, compared, bystate>>

\* lines 294-314: one iteration of the first loop
ClassifyRow ==
    /\ pc = "loop"
    /\ cl.i <= Len(Athletes)
    /\ LET row == Athletes[cl.i]
           aid == RowId(row)
           r   == Resolve(aid, Season, seen_ids, Lookup, _output_cache)
       IN  /\ cl' = [cl EXCEPT
                  !.i = @ + 1,
                  !.season_rows =
                      IF r.emit
                      THEN Append(@, <<StateKey(row),
                                       build_out_row(row, JoinGames(r.games), OutFields)>>)
                      ELSE @,
                  !.from_cache = IF r.how = "cached" THEN @ + 1 ELSE @,
                  !.needs_scrape = IF r.how = "scrape" THEN Append(@, row) ELSE @]
           /\ trace' = [trace EXCEPT
                  !.how[cl.i] = r.how,
                  !.rows_of = IF r.emit THEN Append(@, cl.i) ELSE @,
                  !.need_idx = IF r.how = "scrape" THEN Append(@, cl.i) ELSE @]
    /\ UNCHANGED <<input, disk, seen_ids, winter_lookup, summer_lookup,
                   _output_cache, _current_delay, run, pc, stage, script, call,
                   cands, url, html, games>>
    /\ UNCHANGED <<fetcher, interrupted, parser, built, compared, bystate>>

\* a _fetch call is made for the record the scrape loop is at
Fetched(t) == [t EXCEPT !.fetched[t.need_idx[cl.j]] = TRUE, !.nfetch = @ + 1]

Fetching == Fetched(trace)

\* lines 325-333: the scrape loop turns to the next record of needs_scrape
ScrapeRow ==
    /\ pc = "loop"
    /\ cl.i > Len(Athletes)
    /\ cl.j <= Len(cl.needs_scrape)
    /\ LET row   == cl.needs_scrape[cl.j]
           aid   == RowId(row)
           parts == NameParts(row["Used name"])
       IN  IF aid # ""
           THEN /\ url' = ProfileUrl(aid)
                /\ call' = "page"
                /\ pc' = "fetch"
                /\ trace' = Fetching
                /\ UNCHANGED games
           ELSE IF parts = <<>>
           THEN /\ games' = None
                /\ pc' = "outcome"
                /\ UNCHANGED <<url, call, trace>>
           ELSE /\ url' = SearchUrl(parts)
                /\ call' = "search"
                /\ pc' = "fetch"
                /\ trace' = Fetching
                /\ UNCHANGED games
    /\ UNCHANGED <<input, disk, seen_ids, winter_lookup, summer_lookup,
                   _output_cache, _current_delay, run, stage, script, cl, cands,
                   html>>
    /\ UNCHANGED <<fetcher, interrupted, parser, built, compared, bystate>>


\* ------------------------------------------------------------------ _fetch
\* variant: the doubled delay is not capped
BackoffNoCap(delay) == delay * 2

\* the delay after a 429 answer (line 94)
Backoff(delay) == Min(delay * 2, MAX_DELAY)

\* line 86: time.sleep(delay); slept is the record of the delays slept
Sleep(f) == [f EXCEPT !.slept = Append(@, f.delay)]

\* lines 87-89: the request is sent and answered; answers is the record of
\* the answers ("body", "429", "http_error", "url_error")
Answer(f, a) == [f EXCEPT !.answers = Append(@, a)]

\* variant: a call starts from the last delay the call before it slept
FetchStartCarry(u) ==
    [url |-> u,
     delay |-> IF ft.slept = <<>> THEN _current_delay ELSE ft.slept[Len(ft.slept)],
     attempt |-> 1, slept |-> <<>>, answers |-> <<>>]

\* _fetch(u) is called: delay = _current_delay (line 84)
FetchStart(u) ==
    [url |-> u, delay |-> _current_delay, attempt |-> 1, slept |-> <<>>,
     answers |-> <<>>]

\* the URLs of the calls that are followed attempt by attempt
Urls == {ProfileUrl("1"), ProfileUrl("2"), SearchUrl(NameParts(NameAB))}

\* variant: the first attempt of a call sends its request without sleeping
FetchCallNoSleep ==
    /\ pc \in {"idle", "returned"}
    /\ calls < MaxCalls
    /\ calls' = calls + 1
    /\ \E u \in Urls : ft' = FetchStart(u)
    /\ html' = None
    /\ pc' = "request"
    /\ UNCHANGED <<_current_delay, exhausted>>
    /\ UNCHANGED <<pipeline, interrupted, parser, built, compared, bystate>>

\* _fetch is called
FetchCall ==
    /\ pc \in {"idle", "returned"}
    /\ calls < MaxCalls
    /\ calls' = calls + 1
    /\ \E u \in Urls : ft' = FetchStart(u)
    /\ html' = None
    /\ pc' = "attempt"
    /\ UNCHANGED <<_current_delay, exhausted>>
    /\ UNCHANGED <<pipeline, interrupted, parser, built, compared, bystate>>

\* line 86: an attempt starts with the sleep
FetchSleep ==
    /\ pc = "attempt"
    /\ ft' = Sleep(ft)
    /\ pc' = "request"
    /\ UNCHANGED <<_current_delay, exhausted, calls, html>>
    /\ UNCHANGED <<pipeline, interrupted, parser, built, compared, bystate>>

\* _fetch returns v on the answer a: its locals are gone, the delays it
\* slept and the answers it got stay on record until the next call
FetchReturn(v, a) ==
    /\ html' = v
    /\ ft' = [NoFetch EXCEPT !.slept = ft.slept, !.answers = Answer(ft, a).answers]
    /\ exhausted' = (a = "429")
    /\ pc' = "returned"

\* lines 89-91: the server answers with a body
FetchSuccess ==
    /\ pc = "request"
    /\ \E page \in PagesFor(ft.url) : FetchReturn(Some(page), "body")
    /\ _current_delay' = REQUEST_DELAY
    /\ UNCHANGED calls
    /\ UNCHANGED <<pipeline, interrupted, parser, built, compared, bystate>>

\* variant: the loop goes on after the answer of attempt MAX_RETRIES
Fetch429OneMore ==
    /\ pc = "request"
    /\ IF ft.attempt <= MAX_RETRIES
       THEN /\ ft' = [Answer(ft, "429") EXCEPT !.delay = Backoff(@), !.attempt = @ + 1]
            /\ pc' = "attempt"
            /\ UNCHANGED <<html, exhausted>>
       ELSE FetchReturn(None, "429")
    /\ UNCHANGED <<_current_delay, calls>>
    /\ UNCHANGED <<pipeline, interrupted, parser, built, compared, bystate>>

\* lines 92-96 and 103-104: HTTP 429; the loop goes on, or ends after
\* attempt MAX_RETRIES
Fetch429 ==
    /\ pc = "request"
    /\ IF ft.attempt < MAX_RETRIES
       THEN /\ ft' = [Answer(ft, "429") EXCEPT !.delay = Backoff(@), !.attempt = @ + 1]
            /\ pc' = "attempt"
            /\ UNCHANGED <<html, exhausted>>
       ELSE FetchReturn(None, "429")
    /\ UNCHANGED <<_current_delay, calls>>
    /\ UNCHANGED <<pipeline, interrupted, parser, built, compared, bystate>>

\* variant: another HTTP error status is retried like a 429
FetchHTTPErrorRetry ==
    /\ pc = "request"
    /\ IF ft.attempt < MAX_RETRIES
       THEN /\ ft' = [Answer(ft, "http_error") EXCEPT !.attempt = @ + 1]
            /\ pc' = "attempt"
            /\ UNCHANGED <<html, exhausted>>
       ELSE FetchReturn(None, "http_error")
    /\ UNCHANGED <<_current_delay, calls>>
    /\ UNCHANGED <<pipeline, interrupted, parser, built, compared, bystate>>

\* lines 97-99: another HTTP error status
FetchHTTPError ==
    /\ pc = "request"
    /\ FetchReturn(None, "http_error")
    /\ UNCHANGED <<_current_delay, calls>>
    /\ UNCHANGED <<pipeline, interrupted, parser, built, compared, bystate>>

\* lines 100-102: timeout or connection error
FetchURLError ==
    /\ pc = "request"
    /\ FetchReturn(None, "url_error")
    /\ UNCHANGED <<_current_delay, calls>>
    /\ UNCHANGED <<pipeline, interrupted, parser, built, compared, bystate>>

RECURSIVE FetchLoop(_, _, _)
\* what the loop of lines 85-104 can come to from attempt on: the pairs
\* <<value returned, _current_delay afterwards>>
FetchLoop(u, attempt, shared) ==
    {<<Some(page), REQUEST_DELAY>> : page \in PagesFor(u)}
        \cup {<<None, shared>>}
        \cup (IF attempt < MAX_RETRIES THEN FetchLoop(u, attempt + 1, shared)
              ELSE {<<None, shared>>})

\* a whole _fetch call made by the scrapers
Fetch ==
    /\ pc = "fetch"
    /\ \E r \in FetchLoop(url, 1, _current_delay) :
          /\ html' = r[1]
          /\ _current_delay' = r[2]
    /\ url' = NoUrl
    /\ pc' = "fetched"
    /\ UNCHANGED <<input, disk, seen_ids, winter_lookup, summer_lookup,
                   _output_cache, run, stage, script, cl, call, cands, games, trace>>
    /\ UNCHANGED <<fetcher, interrupted, parser, built, compared, bystate>>

\* ------------------------------------------------- the callers of _fetch
\* games_from_page called by classify_athletes (line 331) gets its page
PageReturn ==
    /\ pc = "fetched"
    /\ call = "page"
    /\ IF html # None /\ PageRaises(html[1])
       THEN /\ games' = None
            /\ pc' = "crashed"
       ELSE /\ games' = games_from_page(html, Season)
            /\ pc' = "outcome"
    /\ trace' = [trace EXCEPT !.pages = Append(@, html)]
    /\ html' = None
    /\ call' = "none"
    /\ UNCHANGED <<input, disk, seen_ids, winter_lookup, summer_lookup,
                   _output_cache, _current_delay, run, stage, script, cl, cands,
                   url>>
    /\ UNCHANGED <<fetcher, interrupted, parser, built, compared, bystate>>

\* variant: with no candidate left the lookup returns the empty list
TryCandidatesEmpty(cs, t) ==
    IF cs = <<>>
    THEN /\ games' = Some(<<>>)
         /\ call' = "none"
         /\ pc' = "outcome"
         /\ cands' = <<>>
         /\ trace' = t
         /\ UNCHANGED url
    ELSE IF Head(cs) = RaiseMark
    THEN /\ games' = None
         /\ call' = "none"
         /\ pc' = "crashed"
         /\ cands' = <<>>
         /\ trace' = t
         /\ UNCHANGED url
    ELSE /\ url' = ProfileUrl(Head(cs))
         /\ call' = "candidate"
         /\ pc' = "fetch"
         /\ cands' = Tail(cs)
         /\ trace' = [Fetched(t) EXCEPT !.tried = Append(@, Head(cs))]
         /\ UNCHANGED games

\* search_and_find_season turns to the candidates cs (lines 137-143): it
\* fetches the profile of the first, or returns None when none is left; t is
\* the record of the resolution so far, tried the candidates fetched
TryCandidates(cs, t) ==
    IF cs = <<>>
    THEN /\ games' = None
         /\ call' = "none"
         /\ pc' = "outcome"
         /\ cands' = <<>>
         /\ trace' = t
         /\ UNCHANGED url
    ELSE IF Head(cs) = RaiseMark
    THEN /\ games' = None
         /\ call' = "none"
         /\ pc' = "crashed"
         /\ cands' = <<>>
         /\ trace' = t
         /\ UNCHANGED url
    ELSE /\ url' = ProfileUrl(Head(cs))
         /\ call' = "candidate"
         /\ pc' = "fetch"
         /\ cands' = Tail(cs)
         /\ trace' = [Fetched(t) EXCEPT !.tried = Append(@, Head(cs))]
         /\ UNCHANGED games

\* lines 132-136: search_and_find_season gets the search page
SearchReturn ==
    /\ pc = "fetched"
    /\ call = "search"
    /\ IF html = None THEN TryCandidates(<<>>, [trace EXCEPT !.searched = Some(html)])
       ELSE TryCandidates(Candidates(html[1]), [trace EXCEPT !.searched = Some(html)])
    /\ html' = None
    /\ UNCHANGED <<input, disk, seen_ids, winter_lookup, summer_lookup,
                   _output_cache, _current_delay, run, stage, script, cl>>
    /\ UNCHANGED <<fetcher, interrupted, parser, built, compared, bystate>>

\* variant: a candidate whose page lists no edition of the season is passed
\* over like one whose fetch failed
CandidateReturnSkipEmpty ==
    /\ pc = "fetched"
    /\ call = "candidate"
    /\ LET raised == html # None /\ PageRaises(html[1])
           g == IF raised THEN None ELSE games_from_page(html, Season)
           t == [trace EXCEPT !.pages = Append(@, html)]
       IN  IF raised
           THEN /\ games' = None
                /\ call' = "none"
                /\ pc' = "crashed"
                /\ cands' = <<>>
                /\ trace' = t
                /\ UNCHANGED url
           ELSE IF g # None /\ g[1] # <<>>
           THEN /\ games' = g
                /\ call' = "none"
                /\ pc' = "outcome"
                /\ cands' = <<>>
                /\ trace' = t
                /\ UNCHANGED url
           ELSE IF g # None /\ cands = <<>>
           THEN /\ games' = g
                /\ call' = "none"
                /\ pc' = "outcome"
                /\ cands' = <<>>
                /\ trace' = t
                /\ UNCHANGED url
           ELSE TryCandidates(cands, t)
    /\ html' = None
    /\ UNCHANGED <<input, disk, seen_ids, winter_lookup, summer_lookup,
                   _output_cache, _current_delay, run, stage, script, cl>>
    /\ UNCHANGED <<fetcher, interrupted, parser, built, compared, bystate>>

\* lines 140-142: games_from_page of a candidate returns
CandidateReturn ==
    /\ pc = "fetched"
    /\ call = "candidate"
    /\ LET raised == html # None /\ PageRaises(html[1])
           g == IF raised THEN None ELSE games_from_page(html, Season)
           t == [trace EXCEPT !.pages = Append(@, html)]
       IN  IF raised
           THEN /\ games' = None
                /\ call' = "none"
                /\ pc' = "crashed"
                /\ cands' = <<>>
                /\ trace' = t
                /\ UNCHANGED url
           ELSE IF g # None
           THEN /\ games' = g
                /\ call' = "none"
                /\ pc' = "outcome"
                /\ cands' = <<>>
                /\ trace' = t
                /\ UNCHANGED url
           ELSE TryCandidates(cands, t)
    /\ html' = None
    /\ UNCHANGED <<input, disk, seen_ids, winter_lookup, summer_lookup,
                   _output_cache, _current_delay, run, stage, script, cl>>
    /\ UNCHANGED <<fetcher, interrupted, parser, built, compared, bystate>>

\* variant: a page without edition of the season counts as a failure
OutcomeEmptyIsNoMatch(g) ==
    IF g = None \/ g[1] = <<>> THEN "no_match" ELSE "season"

\* where lines 335-344 put a record whose live resolution returned g
Outcome(g) ==
    IF g = None THEN "no_match"
    ELSE IF g[1] # <<>> THEN "season"
    ELSE "neither"

\* lines 335-344
ScrapeOutcome ==
    /\ pc = "outcome"
    /\ LET row == cl.needs_scrape[cl.j]
           idx == trace.need_idx[cl.j]
           o   == Outcome(games)
       IN  /\ cl' = [cl EXCEPT
                  !.j = @ + 1,
                  !.no_match_rows =
                      IF o = "no_match"
                      THEN Append(@, build_out_row(row, EmptyGamesStr, OutFields))
                      ELSE @,
                  !.season_rows =
                      IF o = "season"
                      THEN Append(@, <<StateKey(row),
                               build_out_row(row, JoinGames(Sorted(games[1])), OutFields)>>)
                      ELSE @]
           /\ trace' = [trace EXCEPT
                  !.result[idx] = Some(games),
                  !.nfetch = 0,
                  !.searched = None,
                  !.tried = <<>>,
                  !.pages = <<>>,
                  !.nm_of = IF o = "no_match" THEN Append(@, idx) ELSE @,
                  !.rows_of = IF o = "season" THEN Append(@, idx) ELSE @]
    /\ games' = None
    /\ pc' = "loop"
    /\ UNCHANGED <<input, disk, seen_ids, winter_lookup, summer_lookup,
                   _output_cache, _current_delay, run, stage, script, call, cands,
                   url, html>>
    /\ UNCHANGED <<fetcher, interrupted, parser, built, compared, bystate>>

\* variant: the call returns as soon as one live resolution has failed
ClassifyReturnEarly ==
    /\ pc = "loop"
    /\ cl.i > Len(Athletes)
    /\ cl.j > Len(cl.needs_scrape) \/ cl.no_match_rows # <<>>
    /\ script' = [script EXCEPT ![stage] = [season_rows |-> cl.season_rows,
                                            no_match_rows |-> cl.no_match_rows]]
    /\ stage' = stage + 1
    /\ pc' = "stage"
    /\ UNCHANGED <<input, disk, seen_ids, winter_lookup, summer_lookup,
                   _output_cache, _current_delay, run, cl, call, cands, url, html,
                   games, trace>>
    /\ UNCHANGED <<fetcher, interrupted, parser, built, compared, bystate>>

\* lines 318-320 and 346: classify_athletes returns
ClassifyReturn ==
    /\ pc = "loop"
    /\ cl.i > Len(Athletes)
    /\ cl.j > Len(cl.needs_scrape)
    /\ script' = [script EXCEPT ![stage] = [season_rows |-> cl.season_rows,
                                            no_match_rows |-> cl.no_match_rows]]
    /\ stage' = stage + 1
    /\ pc' = "stage"
    /\ UNCHANGED <<input, disk, seen_ids, winter_lookup, summer_lookup,
                   _output_cache, _current_delay, run, cl, call, cands, url, html,
                   games, trace>>
    /\ UNCHANGED <<fetcher, interrupted, parser, built, compared, bystate>>

RECURSIVE RowsOfKeyLast(_, _)
\* variant: a later row of a state takes the place of the earlier ones
RowsOfKeyLast(keyed_rows, key) ==
    IF keyed_rows = <<>> THEN <<>>
    ELSE LET rest == RowsOfKeyLast(Tail(keyed_rows), key)
         IN  IF Head(keyed_rows)[1] = key /\ rest = <<>>
             THEN <<Head(keyed_rows)[2]>>
             ELSE rest

\* ------------------------------------------------- write_season_output
RECURSIVE RowsOfKey(_, _)
\* state_season[key]: the rows grouped under key, in order (lines 394-396)
RowsOfKey(keyed_rows, key) ==
    IF keyed_rows = <<>> THEN <<>>
    ELSE IF Head(keyed_rows)[1] = key
         THEN <<Head(keyed_rows)[2]>> \o RowsOfKey(Tail(keyed_rows), key)
         ELSE RowsOfKey(Tail(keyed_rows), key)

RECURSIVE CountRowsAll(_, _)
\* variant: a state without rows gets a row with the number 0
CountRowsAll(states, keyed_rows) ==
    IF states = <<>> THEN <<>>
    ELSE << <<Head(states), Len(RowsOfKey(keyed_rows, Head(states)))>> >>
             \o CountRowsAll(Tail(states), keyed_rows)

RECURSIVE CountRows(_, _)
\* the rows of count.csv (lines 402-405)
CountRows(states, keyed_rows) ==
    IF states = <<>> THEN <<>>
    ELSE LET n == Len(RowsOfKey(keyed_rows, Head(states)))
         IN  (IF n > 0 THEN << <<Head(states), n>> >> ELSE <<>>)
                 \o CountRows(Tail(states), keyed_rows)

RECURSIVE AllSeason(_, _)
\* all_season (lines 417-419)
AllSeason(states, keyed_rows) ==
    IF states = <<>> THEN <<>>
    ELSE RowsOfKey(keyed_rows, Head(states)) \o AllSeason(Tail(states), keyed_rows)

\* the files of by-state/ after lines 408-415: a state with rows gets its
\* file written, the other files stay as they are
ByStateFiles(old, states, keyed_rows) ==
    LET written == {st \in Range(states) : RowsOfKey(keyed_rows, st) # <<>>}
    IN  [st \in (DOMAIN old) \cup written |->
            IF st \in written THEN RowsOfKey(keyed_rows, st) ELSE old[st]]

\* the files of the season's directory after write_season_output
SeasonFiles(old, states_list, states_rows, elsewhere_rows, no_match_all) ==
    LET states == SortedStates(states_list)
    IN  [f \in DOMAIN old |->
            CASE f = "count.csv"      -> Some(CountRows(states, states_rows))
              [] f = "all-states.csv" -> Some(AllSeason(states, states_rows))
              [] f = "us-born-elsewhere.csv" ->
                     Some([k \in 1..Len(elsewhere_rows) |-> elsewhere_rows[k][2]])
              [] f = "no-match.csv"   -> Some(no_match_all)
              [] OTHER -> ByStateFiles(old[f], states, states_rows)]

\* write_season_output, called at lines 460-469 and 483-492
WriteSeasonOutput ==
    /\ pc = "stage"
    /\ Stages[stage].what = "write"
    /\ disk' = [disk EXCEPT ![Season] =
           SeasonFiles(disk[Season], input.states_list,
               script[stage - 2].season_rows, script[stage - 1].season_rows,
               script[stage - 2].no_match_rows \o script[stage - 1].no_match_rows)]
    /\ IF stage < Len(Stages)
       THEN /\ stage' = stage + 1
            /\ pc' = "stage"
       ELSE /\ stage' = 1
            /\ pc' = "done"
    /\ UNCHANGED <<input, seen_ids, winter_lookup, summer_lookup, _output_cache,
                   _current_delay, run, script, cl, call, cands, url, html, games,
                   trace>>
    /\ UNCHANGED <<fetcher, interrupted, parser, built, compared, bystate>>

\* the script is run again: a new process over the same input tables and
\* the output directories the earlier run left
NextRun ==
    /\ pc \in {"done", "killed"}
    /\ run < MaxRuns
    /\ run' = run + 1
    /\ seen_ids' = {}
    /\ winter_lookup' = EmptyMap
    /\ summer_lookup' = EmptyMap
    /\ _output_cache' = EmptyMap
    /\ _current_delay' = REQUEST_DELAY
    /\ pc' = "index"
    /\ stage' = 1
    /\ script' = NoScript
    /\ cl' = NoClassify
    /\ trace' = NoTrace
    /\ UNCHANGED <<input, disk, call, cands, url, html, games>>
    /\ UNCHANGED <<fetcher, interrupted, parser, built, compared, bystate>>

Next ==
    \/ BuildLookups
    \/ BuildCache
    \/ ClassifyBegin
    \/ ClassifyRow
    \/ ScrapeRow
    \/ Fetch
    \/ PageReturn
    \/ SearchReturn
    \/ CandidateReturn
    \/ ScrapeOutcome
    \/ ClassifyReturn
    \/ WriteSeasonOutput
    \/ NextRun

\* the runs of the script
Spec == Init /\ [][Next]_vars

\* the athletes with identifier that the running process resolved with
\* editions by a live scrape in the season at hand, so far: those of the
\* running call and, in the call for the second roster, those of the call
\* for the first
ScrapedThisSeason ==
    {<<RowId(Athletes[trace.need_idx[q]]), Season>> :
        q \in {q \in DOMAIN trace.need_idx :
                  /\ q < cl.j
                  /\ RowId(Athletes[trace.need_idx[q]]) # ""
                  /\ Outcome(trace.result[trace.need_idx[q]][1]) = "season"}}
    \cup (IF Stages[stage].what = "elsewhere"
          THEN {<<RowId(kr[2]), Season>> :
                   kr \in {kr \in Range(script[stage - 1].season_rows) :
                             /\ RowId(kr[2]) # ""
                             /\ RowId(kr[2]) \notin seen_ids
                             /\ CacheGet(_output_cache, RowId(kr[2]), Season) = None}}
          ELSE {})

\* the same for the season whose tables the running process has written
ScrapedAndWritten ==
    IF Season = "Winter" THEN {}
    ELSE {<<aid, "Winter">> :
             aid \in {aid \in MatchedIds(disk["Winter"]) :
                        /\ aid # ""
                        /\ aid \notin seen_ids
                        /\ CacheGet(_output_cache, aid, "Winter") = None}}

\* the process is killed while a live resolution is under way: its memory
\* is gone, the output directories stay as they are
Interrupt ==
    /\ pc \in {"fetch", "fetched", "outcome"}
    /\ run < MaxRuns
    /\ interrupted' = [run |-> run, unwritten |-> ScrapedThisSeason,
                       written |-> ScrapedAndWritten]
    /\ pc' = "killed"
    /\ call' = "none"
    /\ cands' = <<>>
    /\ url' = NoUrl
    /\ html' = None
    /\ games' = None
    /\ UNCHANGED <<input, disk, seen_ids, winter_lookup, summer_lookup,
                   _output_cache, _current_delay, run, stage, script, cl, trace>>
    /\ UNCHANGED <<fetcher, parser, built, compared, bystate>>

\* the index and the cache built alone, from any small results tables and
\* any small matched tables
InitBuild ==
    /\ \/ /\ \E r \in IndexInputs :
                 input = [all_states_athletes |-> <<>>, elsewhere_athletes |-> <<>>,
                          results |-> r[1], new_results |-> r[2],
                          states_list |-> <<StateMt, StateId>>]
          /\ disk = [Winter |-> NoDir, Summer |-> NoDir]
       \/ /\ input = [all_states_athletes |-> <<>>, elsewhere_athletes |-> <<>>,
                       results |-> <<>>, new_results |-> None,
                       states_list |-> <<StateMt, StateId>>]
          /\ disk \in CacheDisks
    /\ pc = "index"
    /\ Start

NextBuild ==
    \/ BuildLookups
    \/ BuildCache

SpecBuild == InitBuild /\ [][NextBuild]_vars

NextResume ==
    \/ Next
    \/ Interrupt

\* the runs of the script, some of them killed before their end
SpecResume == Init /\ [][NextResume]_vars

\* games_from_page alone: it is called for a season and _fetch returns h
\* (lines 107-109)
PageCall ==
    /\ pc = "page"
    /\ \E h \in PageInputs, st \in {1, 4} :
          /\ html' = h
          /\ stage' = st
    /\ call' = "page"
    /\ pc' = "fetched"
    /\ UNCHANGED <<input, disk, seen_ids, winter_lookup, summer_lookup,
                   _output_cache, _current_delay, run, script, cl, cands, url,
                   games, trace>>
    /\ UNCHANGED <<fetcher, interrupted, parser, built, compared, bystate>>

InitPage ==
    /\ input = [all_states_athletes |-> <<>>, elsewhere_athletes |-> <<>>,
                results |-> <<>>, new_results |-> None,
                states_list |-> <<StateMt, StateId>>]
    /\ disk = [Winter |-> NoDir, Summer |-> NoDir]
    /\ pc = "page"
    /\ Start

NextPage ==
    \/ PageCall
    \/ PageReturn

SpecPage == InitPage /\ [][NextPage]_vars

\* parser.feed(html) comes to a start tag
FeedStartTag ==
    /\ pc = "feed"
    /\ Len(parser.fed) < MaxEvents
    /\ \E st \in StartTags :
          parser' = Fed(handle_starttag(parser, st[1], st[2]),
                        [kind |-> "start", tag |-> st[1], attrs |-> st[2]])
    /\ UNCHANGED <<pipeline, fetcher, _current_delay, pc, html, interrupted, built, compared, bystate>>

\* parser.feed(html) comes to an end tag
FeedEndTag ==
    /\ pc = "feed"
    /\ Len(parser.fed) < MaxEvents
    /\ \E tag \in EndTags :
          parser' = Fed(handle_endtag(parser, tag), [kind |-> "end", tag |-> tag])
    /\ UNCHANGED <<pipeline, fetcher, _current_delay, pc, html, interrupted, built, compared, bystate>>

\* parser.feed(html) comes to character data
FeedData ==
    /\ pc = "feed"
    /\ Len(parser.fed) < MaxEvents
    /\ \E data \in DataPieces :
          parser' = Fed(handle_data(parser, data), [kind |-> "data", data |-> data])
    /\ UNCHANGED <<pipeline, fetcher, _current_delay, pc, html, interrupted, built, compared, bystate>>

InitParser ==
    /\ input = [all_states_athletes |-> <<>>, elsewhere_athletes |-> <<>>,
                results |-> <<>>, new_results |-> None,
                states_list |-> <<StateMt, StateId>>]
    /\ disk = [Winter |-> NoDir, Summer |-> NoDir]
    /\ pc = "feed"
    /\ Start

NextParser ==
    \/ FeedStartTag
    \/ FeedEndTag
    \/ FeedData

\* a LinkTextParser alone, fed any MaxEvents tags and pieces of data
SpecParser == InitParser /\ [][NextParser]_vars

\* born_state alone: a roster of one athlete of the index, whose season row
\* is grouped under born_state(row) by the first loop of classify_athletes
InitBorn ==
    /\ \E b \in BornInputs :
          input = [all_states_athletes |-> <<Athlete("1", NameAB, b)>>,
                   elsewhere_athletes |-> <<>>,
                   results |-> <<ResultRow("1", 2022, "Winter", "Olympics")>>,
                   new_results |-> None,
                   states_list |-> <<StateMt, StateId>>]
    /\ disk = [Winter |-> NoDir, Summer |-> NoDir]
    /\ pc = "index"
    /\ Start

NextBorn ==
    \/ BuildLookups
    \/ BuildCache
    \/ ClassifyBegin
    \/ ClassifyRow

SpecBorn == InitBorn /\ [][NextBorn]_vars

\* lines 369 and 275-278: out_fields is made from a header line and one
\* output row is built from a record; the dict comprehension of line 276
\* only reads the record, which is therefore the same afterwards
BuildOutRow ==
    /\ pc = "row"
    /\ \E fieldnames \in FieldLists, row \in RowInputs, games_str \in {"g", "v"} :
          LET out_fields == make_out_fields(fieldnames)
          IN  built' = Some([fieldnames |-> fieldnames, row |-> row,
                             games_str |-> games_str, out_fields |-> out_fields,
                             out |-> build_out_row(row, games_str, out_fields),
                             row_after |-> row])
    /\ pc' = "built"
    /\ UNCHANGED <<pipeline, fetcher, _current_delay, html, interrupted, parser, compared, bystate>>

InitRow ==
    /\ input = [all_states_athletes |-> <<>>, elsewhere_athletes |-> <<>>,
                results |-> <<>>, new_results |-> None,
                states_list |-> <<StateMt, StateId>>]
    /\ disk = [Winter |-> NoDir, Summer |-> NoDir]
    /\ pc = "row"
    /\ Start

NextRow == BuildOutRow

\* make_out_fields and build_out_row alone, for any header line of up to
\* MaxFields columns and any record
SpecRow == InitRow /\ [][NextRow]_vars

\* ------------------------------------------------------- filter-winter.py
\* filter-winter.py lines 165-166: the edition is appended to the athlete's
\* list when it matches _WINTER_RE and is not yet listed
WinterAddGames(lookup, aid, gs) ==
    IF SeasonRe(gs, "Winter")
    THEN IF aid \notin DOMAIN lookup THEN lookup @@ (aid :> <<gs>>)
         ELSE IF gs \in Range(lookup[aid]) THEN lookup
         ELSE [lookup EXCEPT ![aid] = Append(@, gs)]
    ELSE lookup

RECURSIVE WinterReadResults(_, _)
\* filter-winter.py lines 158-166; ix is [seen_ids, winter_lookup]
WinterReadResults(rows, ix) ==
    IF rows = <<>> THEN ix
    ELSE LET row == Head(rows)
             aid == RowId(row)
         IN  IF aid = "" THEN WinterReadResults(Tail(rows), ix)
             ELSE WinterReadResults(Tail(rows),
                     [seen_ids      |-> ix.seen_ids \cup {aid},
                      winter_lookup |-> WinterAddGames(ix.winter_lookup, aid, row["Games"])])

\* filter-winter.py lines 155-170: the index of results.csv alone
WinterIndex(results) ==
    LET ix == WinterReadResults(results, [seen_ids |-> {}, winter_lookup |-> EmptyMap])
    IN  [seen_ids |-> ix.seen_ids, winter_lookup |-> SortLookup(ix.winter_lookup)]

RECURSIVE WinterPageGamesAnySeason(_, _)
\* variant: the season named in the link text is not looked at
WinterPageGamesAnySeason(links, gs) ==
    IF links = <<>> THEN gs
    ELSE LET l == Head(links)
             m == TextEdition(l.text, l.text.ed[2])
         IN  IF IsEditionHref(l.href) /\ m # None /\ m[1] \notin Range(gs)
             THEN WinterPageGamesAnySeason(Tail(links), Append(gs, m[1]))
             ELSE WinterPageGamesAnySeason(Tail(links), gs)

RECURSIVE WinterPageGames(_, _)
\* the loop of winter_games_from_page (filter-winter.py lines 114-119)
WinterPageGames(links, gs) ==
    IF links = <<>> THEN gs
    ELSE LET l == Head(links)
             m == TextEdition(l.text, "Winter")
         IN  IF IsEditionHref(l.href) /\ m # None /\ m[1] \notin Range(gs)
             THEN WinterPageGames(Tail(links), Append(gs, m[1]))
             ELSE WinterPageGames(Tail(links), gs)

\* winter_games_from_page after _fetch has returned html
winter_games_from_page(page) ==
    IF page = None THEN None
    ELSE Some(Sorted(WinterPageGames(page[1], <<>>)))

\* the first loop of classify_athletes in filter-winter.py (lines 199-209)
\* for one record: there is no output cache
WinterResolve(aid, seen, lookup) ==
    IF aid \in seen
    THEN [how |-> "known", games |-> LookupGet(lookup, aid),
          emit |-> LookupGet(lookup, aid) # <<>>]
    ELSE [how |-> "scrape", games |-> <<>>, emit |-> FALSE]

\* --------------------------- a classify_athletes call as a function of
\* --------------------------- the answers _fetch gives, one after the other
\* the answer to the next _fetch call and the answers after it; when the
\* answers given are used up every further call fails
NextAnswer(answers) == IF answers = <<>> THEN None ELSE Head(answers)

LaterAnswers(answers) == IF answers = <<>> THEN <<>> ELSE Tail(answers)

\* games_from_page of this script or winter_games_from_page of filter-winter.py
PageOf(which, page, season) ==
    IF which = "winter" THEN winter_games_from_page(page)
    ELSE games_from_page(page, season)

\* one profile lookup: the value returned, whether the call raised instead,
\* and the answers left
PageLive(which, season, answers) ==
    LET h == NextAnswer(answers)
    IN  IF h # None /\ PageRaises(h[1])
        THEN [games |-> None, raised |-> TRUE, rest |-> LaterAnswers(answers)]
        ELSE [games |-> PageOf(which, h, season), raised |-> FALSE,
              rest |-> LaterAnswers(answers)]

RECURSIVE TryLive(_, _, _, _)
\* the loop over the candidates of a search page (lines 137-142; lines
\* 135-140 of filter-winter.py)
TryLive(which, season, cs, answers) ==
    IF cs = <<>> THEN [games |-> None, raised |-> FALSE, rest |-> answers]
    ELSE IF Head(cs) = RaiseMark THEN [games |-> None, raised |-> TRUE, rest |-> answers]
    ELSE LET p == PageLive(which, season, answers)
         IN  IF p.raised \/ p.games # None THEN p
             ELSE TryLive(which, season, Tail(cs), p.rest)

\* lines 330-333 (filter-winter.py 220-223): the live resolution of a record
Live(which, season, row, answers) ==
    IF RowId(row) # "" THEN PageLive(which, season, answers)
    ELSE IF NameParts(row["Used name"]) = <<>>
    THEN [games |-> None, raised |-> FALSE, rest |-> answers]
    ELSE LET s == NextAnswer(answers)
         IN  IF s = None
             THEN [games |-> None, raised |-> FALSE, rest |-> LaterAnswers(answers)]
             ELSE TryLive(which, season, Candidates(s[1]), LaterAnswers(answers))

RECURSIVE FirstLoop(_, _, _, _)
\* lines 294-314 (filter-winter.py 199-209) given the branch taken for each
\* record: the season rows appended and the records put on needs_scrape
FirstLoop(athletes, decided, k, acc) ==
    IF k > Len(athletes) THEN acc
    ELSE LET row == athletes[k]
             r   == decided[k]
         IN  FirstLoop(athletes, decided, k + 1,
                [season_rows |->
                     IF r.emit
                     THEN Append(acc.season_rows,
                              <<born_state(row),
                                build_out_row(row, JoinGames(r.games), OutFields)>>)
                     ELSE acc.season_rows,
                 needs_scrape |->
                     IF r.how = "scrape" THEN Append(acc.needs_scrape, row)
                     ELSE acc.needs_scrape])

RECURSIVE ScrapeLoop(_, _, _, _, _)
\* lines 325-344 (filter-winter.py 215-233): the rows the call returns;
\* raised tells that an exception ended the call instead, and then nothing
\* is returned
ScrapeLoop(which, season, needs, answers, acc) ==
    IF needs = <<>> THEN acc
    ELSE LET row == Head(needs)
             l   == Live(which, season, row, answers)
             o   == Outcome(l.games)
         IN  IF l.raised
             THEN [season_rows |-> <<>>, no_match_rows |-> <<>>, raised |-> TRUE]
             ELSE ScrapeLoop(which, season, Tail(needs), l.rest,
                     [raised |-> FALSE,
                      season_rows |->
                          IF o = "season"
                          THEN Append(acc.season_rows,
                                   <<born_state(row),
                                     build_out_row(row, JoinGames(Sorted(l.games[1])),
                                                   OutFields)>>)
                          ELSE acc.season_rows,
                      no_match_rows |->
                          IF o = "no_match"
                          THEN Append(acc.no_match_rows,
                                   build_out_row(row, EmptyGamesStr, OutFields))
                          ELSE acc.no_match_rows])

\* classify_athletes(athletes, out_fields, state_key_fn=born_state) of
\* filter-winter.py (lines 189-235) after its index was built from results
WinterOnly(athletes, results, answers) ==
    LET ix      == WinterIndex(results)
        decided == [k \in DOMAIN athletes |->
                       WinterResolve(RowId(athletes[k]), ix.seen_ids, ix.winter_lookup)]
        first   == FirstLoop(athletes, decided, 1,
                             [season_rows |-> <<>>, needs_scrape |-> <<>>])
    IN  ScrapeLoop("winter", "Winter", first.needs_scrape, answers,
                   [season_rows |-> first.season_rows, no_match_rows |-> <<>>,
                    raised |-> FALSE])

\* classify_athletes(athletes, out_fields, season, lookup, born_state) of
\* this script (lines 280-346) after its index was built from the results
\* tables, with the output cache given
Combined(athletes, season, results, new_results, cache, answers) ==
    LET ix      == BuildIndex(results, new_results)
        lookup  == IF season = "Winter" THEN ix.winter_lookup ELSE ix.summer_lookup
        decided == [k \in DOMAIN athletes |->
                       Resolve(RowId(athletes[k]), season, ix.seen_ids, lookup, cache)]
        first   == FirstLoop(athletes, decided, 1,
                             [season_rows |-> <<>>, needs_scrape |-> <<>>])
    IN  ScrapeLoop("combined", season, first.needs_scrape, answers,
                   [season_rows |-> first.season_rows, no_match_rows |-> <<>>,
                    raised |-> FALSE])

\* a profile page that lists an edition named Winter Olympics before MIN_YEAR
PageEarlyWinter ==
    <<EdLink("", 1920, "Winter", "Olympics"), EdLink("", 2022, "Winter", "Olympics")>>

\* the answers _fetch may give when the two scripts are compared
Answers ==
    {None, Some(PageGamesBoth), Some(PageEarlyWinter), Some(SearchPage(1)),
     Some(PageBareHref)}

\* the results.csv files and the rosters the two scripts are compared on
ComparedResults ==
    {<<ResultRow("1", 2022, "Winter", "Olympics"), ResultRow("1", 2018, "Winter", "Olympics")>>,
     <<ResultRow("1", 2022, "Winter", "Olympics"), ResultRow("1", 1920, "Winter", "Olympics")>>,
     <<ResultRow("1", 1920, "Winter", "Olympics")>>,
     <<ResultRow("3", 2020, "Summer", "Olympics")>>}

ComparedNewResults == {None, Some(<<ResultRow("2", 2022, "Winter", "Olympics")>>)}

ComparedRecords ==
    {Athlete("1", NameAB, BornMt), Athlete("2", NameAB, BornId),
     Athlete("", NameAB, BornMt)}

\* both scripts classify the same roster for Winter, from the same
\* results.csv and with the same answers from the site; this script also
\* reads 2024-2026-us-results.csv when it exists and starts from an empty
\* output cache
CompareScripts ==
    /\ pc = "compare"
    /\ \E a \in SeqsUpTo(ComparedRecords, 1, MaxRoster), r \in ComparedResults,
          n \in ComparedNewResults, ans \in SeqsUpTo(Answers, 0, MaxResponses) :
          compared' = Some([athletes |-> a, results |-> r, new_results |-> n,
                            answers |-> ans,
                            winter |-> WinterOnly(a, r, ans),
                            combined |-> Combined(a, "Winter", r, n, EmptyMap, ans)])
    /\ pc' = "compared"
    /\ UNCHANGED <<pipeline, fetcher, _current_delay, html, interrupted, parser,
                   built, bystate>>

InitCompare ==
    /\ input = [all_states_athletes |-> <<>>, elsewhere_athletes |-> <<>>,
                results |-> <<>>, new_results |-> None,
                states_list |-> <<StateMt, StateId>>]
    /\ disk = [Winter |-> NoDir, Summer |-> NoDir]
    /\ pc = "compare"
    /\ Start

NextCompare == CompareScripts

\* filter-winter.py and this script on the same roster, results.csv and
\* answers
SpecCompare == InitCompare /\ [][NextCompare]_vars

\* the Winter directory as filter-winter.py leaves it (its lines 276-318
\* write the same files as write_season_output) after a run in which the
\* profile page of athlete 2, who is not in results.csv, listed an edition
\* named Winter Olympics before MIN_YEAR; the two scripts share WINTER_DIR
WinterScriptDisk ==
    [Winter |-> SeasonFiles(NoDir, <<StateMt, StateId>>,
                    WinterOnly(<<Athlete("2", NameAB, BornMt)>>, <<>>,
                               <<Some(PageEarlyWinter)>>).season_rows,
                    <<>>, <<>>),
     Summer |-> NoDir]

\* the script starts over output directories that an earlier run of it, or
\* a run of filter-winter.py, has written
InitPrior ==
    /\ \E a \in SeqsUpTo(StateRecords, 1, MaxRoster),
          e \in SeqsUpTo(ElsewhereRecords, 0, MaxElsewhere),
          r \in ResultsInputs :
          input = [all_states_athletes |-> a, elsewhere_athletes |-> e,
                   results |-> r[1], new_results |-> r[2],
                   states_list |-> <<StateMt, StateId>>]
    /\ disk \in PriorDisks \cup {WinterScriptDisk}
    /\ pc = "index"
    /\ Start

\* the runs of the script, whoever wrote the files it finds
SpecPrior == InitPrior /\ [][Next]_vars

\* ---------------- classify_athletes with _fetch followed attempt by attempt
\* a scraper calls _fetch(url): line 84
FetchEnter ==
    /\ pc = "fetch"
    /\ ft' = FetchStart(url)
    /\ html' = None
    /\ pc' = "attempt"
    /\ UNCHANGED <<_current_delay, exhausted, calls>>
    /\ UNCHANGED <<pipeline, interrupted, parser, built, compared, bystate>>

\* the scraper has the value _fetch returned (lines 91, 99, 102, 104)
FetchLeave ==
    /\ pc = "returned"
    /\ url' = NoUrl
    /\ pc' = "fetched"
    /\ UNCHANGED <<input, disk, seen_ids, winter_lookup, summer_lookup,
                   _output_cache, _current_delay, run, stage, script, cl, call,
                   cands, html, games, trace>>
    /\ UNCHANGED <<fetcher, interrupted, parser, built, compared, bystate>>

\* the two Winter calls of classify_athletes of one run, every _fetch call
\* of theirs followed attempt by attempt
NextCall ==
    \/ BuildLookups
    \/ BuildCache
    \/ ClassifyBegin
    \/ ClassifyRow
    \/ ScrapeRow
    \/ FetchEnter
    \/ FetchSleep
    \/ FetchSuccess
    \/ Fetch429
    \/ FetchHTTPError
    \/ FetchURLError
    \/ FetchLeave
    \/ PageReturn
    \/ SearchReturn
    \/ CandidateReturn
    \/ ScrapeOutcome
    \/ ClassifyReturn

\* the interpreter runs the script on: a step that can be taken is taken
SpecCall == Init /\ [][NextCall]_vars /\ WF_vars(NextCall)

\* ------------------------------------------------- olympians-by-state.py
\* parse_born(born_str): the pair (state, country code), None when the
\* field is empty or _BORN_RE, the pattern of filter-by-olympics.py, does
\* not match
parse_born(born_str) ==
    IF born_str = Blank THEN None
    ELSE LET m == BornSearch(born_str)
         IN  IF m # None THEN Some(<<Strip(m[1][1]), Strip(m[1][2])>>) ELSE None

\* p in s, for two strings
Contains(s, p) ==
    \E i \in 1..(Len(s) - Len(p) + 1) : SubSeq(s, i, i + Len(p) - 1) = p

UnitedStates == <<"U", "n", "i", "t", "e", "d", " ", "S", "t", "a", "t", "e", "s">>
CountryUSA == <<"U", "S", "A">>

\* athlete.get(col, "")
BioGet(athlete, col) == IF col \in DOMAIN athlete THEN athlete[col] ELSE Blank

\* str(row.get("athlete_id", ""))
BioId(row) == IF "athlete_id" \in DOMAIN row THEN row["athlete_id"] ELSE ""

\* line 79
is_us_state_born(athlete, states_set) ==
    LET p == parse_born(BioGet(athlete, "Born"))
    IN  p # None /\ p[1][2] = CountryUSA /\ p[1][1] \in states_set

\* NOC fields
NocUS      == UnitedStates
NocFrance  == <<"F", "r", "a", "n", "c", "e">>
NocChinaUS == <<"C", "h", "i", "n", "a", " ", "U", "n", "i", "t", "e", "d", " ", "S", "t", "a", "t", "e", "s">>
NocVirgin  == <<"U", "n", "i", "t", "e", "d", " ", "S", "t", "a", "t", "e", "s", " ", "V", "i", "r", "g", "i", "n", " ", "I", "s", "l", "a", "n", "d", "s">>

\* Born fields: a state that is not in the list, and the name of a state
\* with the code of another country
BornUsaOther == <<"H", ",", " ", "X", "x", " ", "(", "U", "S", "A", ")">>
BornIdFra    == <<"B", ",", " ", "I", "d", " ", "(", "F", "R", "A", ")">>

Bio(aid, born, noc) == [athlete_id |-> aid, Born |-> born, NOC |-> noc]

\* rows of bios.csv; the last is a row of a table without NOC column
BiosRecords ==
    {Bio("1", BornMt, NocUS), Bio("2", BornId, NocFrance),
     Bio("3", BornAbroad, NocUS), Bio("4", Blank, NocChinaUS),
     Bio("5", BornUsaOther, NocUS), Bio("6", BornIdFra, NocVirgin),
     Bio("7", BornAbroad, NocFrance), Bio("1", BornId, NocUS),
     [athlete_id |-> "8", Born |-> BornMt]}

\* 2024-2026-us-bios.csv: missing, or its rows
NewBios ==
    {None, Some(<<Bio("1", BornId, NocUS)>>),
     Some(<<Bio("9", BornId, NocUS), Bio("", BornMt, NocUS), Bio("9", BornMt, NocUS)>>)}

RECURSIVE MergeBios(_, _, _)
\* lines 55-60: the rows of the new table whose identifier is not empty and
\* not yet seen are appended
MergeBios(bios_rows, new_rows, seen) ==
    IF new_rows = <<>> THEN bios_rows
    ELSE LET row == Head(new_rows)
             aid == BioId(row)
         IN  IF aid # "" /\ aid \notin seen
             THEN MergeBios(Append(bios_rows, row), Tail(new_rows), seen \cup {aid})
             ELSE MergeBios(bios_rows, Tail(new_rows), seen)

\* lines 41-72: the tables are read and merged, the lists start empty.  A
\* list holds references to the row dicts; a row is written as its position
\* in athletes
LoadBios ==
    /\ pc = "bios"
    /\ \E bios_rows \in SeqsUpTo(BiosRecords, 0, MaxBios), new \in NewBios :
          bystate' = Some(
              [athletes |->
                   IF new = None THEN bios_rows
                   ELSE MergeBios(bios_rows, new[1],
                            {BioId(r) : r \in Range(bios_rows)}),
               states_set |-> Range(input.states_list),
               i |-> 1,
               state_athletes |-> EmptyMap,
               us_noc_born_elsewhere |-> <<>>])
    /\ pc' = "categorize"
    /\ UNCHANGED <<pipeline, fetcher, _current_delay, html, interrupted, parser,
                   built, compared>>

\* state_athletes[state].append(k) on the defaultdict
StateAppend(state_athletes, state, k) ==
    IF state \in DOMAIN state_athletes
    THEN [state_athletes EXCEPT ![state] = Append(@, k)]
    ELSE state_athletes @@ (state :> <<k>>)

\* variant: the born-elsewhere test looks at the NOC field alone
CategorizeNocOnly ==
    /\ pc = "categorize"
    /\ LET b       == bystate[1]
           athlete == b.athletes[b.i]
           state   == parse_born(BioGet(athlete, "Born"))
           born_us == is_us_state_born(athlete, b.states_set)
       IN  /\ b.i <= Len(b.athletes)
           /\ bystate' = Some([b EXCEPT
                  !.i = @ + 1,
                  !.state_athletes =
                      IF born_us THEN StateAppend(@, state[1][1], b.i) ELSE @,
                  !.us_noc_born_elsewhere =
                      IF Contains(BioGet(athlete, "NOC"), UnitedStates)
                      THEN Append(@, b.i) ELSE @])
    /\ UNCHANGED pc
    /\ UNCHANGED <<pipeline, fetcher, _current_delay, html, interrupted, parser,
                   built, compared>>

\* lines 74-88: one turn of the loop over athletes
Categorize ==
    /\ pc = "categorize"
    /\ LET b       == bystate[1]
           athlete == b.athletes[b.i]
           state   == parse_born(BioGet(athlete, "Born"))
           born_us == is_us_state_born(athlete, b.states_set)
       IN  /\ b.i <= Len(b.athletes)
           /\ bystate' = Some([b EXCEPT
                  !.i = @ + 1,
                  !.state_athletes =
                      IF born_us THEN StateAppend(@, state[1][1], b.i) ELSE @,
                  !.us_noc_born_elsewhere =
                      IF Contains(BioGet(athlete, "NOC"), UnitedStates) /\ ~born_us
                      THEN Append(@, b.i) ELSE @])
    /\ UNCHANGED pc
    /\ UNCHANGED <<pipeline, fetcher, _current_delay, html, interrupted, parser,
                   built, compared>>

InitByState ==
    /\ input = [all_states_athletes |-> <<>>, elsewhere_athletes |-> <<>>,
                results |-> <<>>, new_results |-> None,
                states_list |-> <<StateMt, StateId>>]
    /\ disk = [Winter |-> NoDir, Summer |-> NoDir]
    /\ pc = "bios"
    /\ Start

NextByState ==
    \/ LoadBios
    \/ Categorize

\* olympians-by-state.py up to the end of its loop over the athletes
SpecByState == InitByState /\ [][NextByState]_vars

\* _fetch alone, attempt by attempt, for MaxCalls successive calls
InitFetch ==
    /\ input = [all_states_athletes |-> <<>>, elsewhere_athletes |-> <<>>,
                results |-> <<>>, new_results |-> None,
                states_list |-> <<StateMt, StateId>>]
    /\ disk = [Winter |-> NoDir, Summer |-> NoDir]
    /\ pc = "idle"
    /\ Start

NextFetch ==
    \/ FetchCall
    \/ FetchSleep
    \/ FetchSuccess
    \/ Fetch429
    \/ FetchHTTPError
    \/ FetchURLError

SpecFetch == InitFetch /\ [][NextFetch]_vars


\* ================================================================ claims
\* the positions of seq that hold k
Positions(seq, k) == {p \in DOMAIN seq : seq[p] = k}

\* a classify_athletes call is running: cl and trace describe it
InClassify == pc \in {"loop", "fetch", "fetched", "outcome"}

\* record k of the running call has been through the first loop
Passed(k) == k < cl.i

\* the running call has finished both loops
Finished == pc = "loop" /\ cl.i > Len(Athletes) /\ cl.j > Len(cl.needs_scrape)

\* the Games values of the season rows appended for record k
GamesOf(k) == {cl.season_rows[p][2]["Games"] : p \in Positions(trace.rows_of, k)}

\* record k was put on needs_scrape
Scraped(k) == k \in Range(trace.need_idx)

\* C1: an athlete of the index is resolved from the index alone, whatever the
\* cache holds for it; an athlete not in the index with a cache entry for the
\* season is resolved from that entry alone; only an athlete with neither is
\* put on the scrape list.
C1_Priority ==
    InClassify =>
        \A k \in 1..Len(Athletes) : Passed(k) =>
            LET aid    == RowId(Athletes[k])
                known  == LookupGet(Lookup, aid)
                cached == CacheGet(_output_cache, aid, Season)
            IN  IF aid \in seen_ids
                THEN /\ ~Scraped(k)
                     /\ ~trace.fetched[k]
                     /\ GamesOf(k) = IF known = <<>> THEN {} ELSE {JoinGames(known)}
                ELSE IF cached # None
                THEN /\ ~Scraped(k)
                     /\ ~trace.fetched[k]
                     /\ GamesOf(k) = IF cached[1] = <<>> THEN {}
                                     ELSE {JoinGames(Sorted(cached[1]))}
                ELSE Scraped(k)

\* an indexed athlete for which the cache holds other editions got the row
\* of the index
C1_Witness ==
    /\ InClassify
    /\ \E k \in 1..Len(Athletes) :
          LET aid == RowId(Athletes[k])
          IN  /\ Passed(k)
              /\ aid \in seen_ids
              /\ CacheGet(_output_cache, aid, Season) # None
              /\ CacheGet(_output_cache, aid, Season)[1] # LookupGet(Lookup, aid)
              /\ GamesOf(k) = {JoinGames(LookupGet(Lookup, aid))}

\* C2: an athlete of the index without an edition of the season gets no
\* season row and no no-match row, and no fetch is made for it.
C2_KnownWithoutEdition ==
    InClassify =>
        \A k \in 1..Len(Athletes) :
            (/\ Passed(k)
             /\ RowId(Athletes[k]) \in seen_ids
             /\ LookupGet(Lookup, RowId(Athletes[k])) = <<>>)
            => /\ Positions(trace.rows_of, k) = {}
               /\ Positions(trace.nm_of, k) = {}
               /\ ~Scraped(k)
               /\ ~trace.fetched[k]

\* a call finished with such an athlete on its roster, one the cache holds
\* editions for
C2_Witness ==
    /\ InClassify
    /\ Finished
    /\ \E k \in 1..Len(Athletes) :
          /\ RowId(Athletes[k]) \in seen_ids
          /\ LookupGet(Lookup, RowId(Athletes[k])) = <<>>
          /\ CacheGet(_output_cache, RowId(Athletes[k]), Season) # None
          /\ trace.how[k] = "known"

\* C3: for an athlete not in the index that has a cache entry for the season,
\* the call makes no fetch.
C3_CachedNoFetch ==
    InClassify =>
        \A k \in 1..Len(Athletes) :
            (/\ Passed(k)
             /\ RowId(Athletes[k]) \notin seen_ids
             /\ CacheGet(_output_cache, RowId(Athletes[k]), Season) # None)
            => ~Scraped(k) /\ ~trace.fetched[k]

\* a call finished with a row taken from the cache
C3_Witness ==
    /\ InClassify
    /\ Finished
    /\ \E k \in 1..Len(Athletes) :
          /\ RowId(Athletes[k]) \notin seen_ids
          /\ CacheGet(_output_cache, RowId(Athletes[k]), Season) # None
          /\ trace.how[k] = "cached"
          /\ GamesOf(k) # {}

\* record k of the running call has a row in the season's no-match.csv
InNoMatchFile(k) ==
    build_out_row(Athletes[k], EmptyGamesStr, OutFields)
        \in Range(FileRows(disk[Season], "no-match.csv"))

MatchedTables(d) ==
    [s \in Seasons |-> <<d[s]["all-states.csv"], d[s]["us-born-elsewhere.csv"],
                         d[s]["by-state"]>>]

\* C5 as stated: the matched tables a second run writes are the tables the
\* first run left, row for row and in the same order.
C5_Identical == [][run >= 2 => MatchedTables(disk') = MatchedTables(disk)]_vars

\* rows holds a row for the record of r that lists at least r's editions
RowKept(r, rows) ==
    \E q \in Range(rows) :
        /\ \A c \in DOMAIN r \ {"Games"} : q[c] = r[c]
        /\ Range(SplitGames(r["Games"])) \subseteq Range(SplitGames(q["Games"]))

\* every row of old that has an identifier is kept in new
TableKept(old, new) == \A r \in Range(old) : RowId(r) # "" => RowKept(r, new)

\* C5, amended: every row of a matched table that has an identifier is again
\* in the table the second run writes, for the same record and with at least
\* the same editions; order and further rows are free.
C5_RowsKept ==
    [][run >= 2 =>
        \A s \in Seasons :
            /\ TableKept(FileRows(disk[s], "all-states.csv"),
                         FileRows(disk'[s], "all-states.csv"))
            /\ TableKept(FileRows(disk[s], "us-born-elsewhere.csv"),
                         FileRows(disk'[s], "us-born-elsewhere.csv"))
            /\ \A st \in DOMAIN disk[s]["by-state"] :
                  /\ st \in DOMAIN disk'[s]["by-state"]
                  /\ TableKept(disk[s]["by-state"][st], disk'[s]["by-state"][st])]_vars

\* the second run has written the Winter tables, with a row it took from the
\* cache, that is from the first run's table
C5_Witness ==
    /\ run = 2
    /\ pc = "stage"
    /\ stage = 4
    /\ \E r \in Range(FileRows(disk["Winter"], "all-states.csv")) :
          /\ RowId(r) # ""
          /\ RowId(r) \notin seen_ids
          /\ CacheGet(_output_cache, RowId(r), "Winter") # None

\* the output row out carries the columns of the input record row
SameRecord(out, row) ==
    \A c \in (DOMAIN out \cap DOMAIN row) \ {"Games"} : out[c] = row[c]

\* record k of the running call has a row in a matched table of the season
HasMatchedRow(k) ==
    \E r \in Range(FileRows(disk[Season], "all-states.csv"))
                 \cup Range(FileRows(disk[Season], "us-born-elsewhere.csv")) :
        SameRecord(r, Athletes[k])

\* C6 as stated: a second run makes no fetch for a record that has a row in a
\* matched table of the first run, with or without identifier.
C6_NoFetchForMatched ==
    (InClassify /\ run >= 2) =>
        \A k \in 1..Len(Athletes) : HasMatchedRow(k) => ~trace.fetched[k]

\* C6, amended: a second run makes no fetch for a record with an identifier
\* that a matched table of the first run holds.
C6_NoFetchForMatchedIds ==
    (InClassify /\ run >= 2) =>
        \A k \in 1..Len(Athletes) :
            (RowId(Athletes[k]) # "" /\ RowId(Athletes[k]) \in MatchedIds(disk[Season]))
            => ~trace.fetched[k]

\* a second run finished a call that resolved an athlete outside the index
\* from the first run's table
C6_Witness ==
    /\ InClassify
    /\ Finished
    /\ run = 2
    /\ \E k \in 1..Len(Athletes) :
          /\ RowId(Athletes[k]) # ""
          /\ RowId(Athletes[k]) \notin seen_ids
          /\ RowId(Athletes[k]) \in MatchedIds(disk[Season])
          /\ GamesOf(k) # {}

\* C7: a live resolution that returned editions gives one season row and no
\* no-match row; one that returned an empty list gives neither; one that
\* failed gives one no-match row and no season row.
C7_OutcomeMapping ==
    InClassify =>
        \A k \in 1..Len(Athletes) : trace.result[k] # None =>
            LET g == trace.result[k][1]
            IN  IF g = None
                THEN /\ Cardinality(Positions(trace.nm_of, k)) = 1
                     /\ Positions(trace.rows_of, k) = {}
                ELSE IF g[1] # <<>>
                THEN /\ Cardinality(Positions(trace.rows_of, k)) = 1
                     /\ GamesOf(k) = {JoinGames(Sorted(g[1]))}
                     /\ Positions(trace.nm_of, k) = {}
                ELSE /\ Positions(trace.rows_of, k) = {}
                     /\ Positions(trace.nm_of, k) = {}

\* one call saw a page without edition of the season and a failure
C7_Witness ==
    /\ InClassify
    /\ Finished
    /\ \E k1, k2 \in 1..Len(Athletes) :
          /\ trace.fetched[k1]
          /\ trace.result[k1] = Some(Some(<<>>))
          /\ Positions(trace.rows_of, k1) = {}
          /\ Positions(trace.nm_of, k1) = {}
          /\ trace.result[k2] = Some(None)
          /\ Positions(trace.nm_of, k2) # {}

\* C8: a record has at most one season row and at most one no-match row and
\* not both; a season row lists at least one edition; a no-match row belongs
\* to a record whose live resolution failed.
C8_RowsPerRecord ==
    InClassify =>
        /\ Len(trace.rows_of) = Len(cl.season_rows)
        /\ Len(trace.nm_of) = Len(cl.no_match_rows)
        /\ \A k \in 1..Len(Athletes) :
              /\ Cardinality(Positions(trace.rows_of, k)) <= 1
              /\ Cardinality(Positions(trace.nm_of, k)) <= 1
              /\ Positions(trace.rows_of, k) = {} \/ Positions(trace.nm_of, k) = {}
        /\ \A p \in DOMAIN cl.season_rows :
              /\ SplitGames(cl.season_rows[p][2]["Games"]) # <<>>
              /\ SameRecord(cl.season_rows[p][2], Athletes[trace.rows_of[p]])
        /\ \A p \in DOMAIN cl.no_match_rows :
              /\ trace.result[trace.nm_of[p]] = Some(None)
              /\ SameRecord(cl.no_match_rows[p], Athletes[trace.nm_of[p]])

\* a call finished with a season row for one record and a no-match row for
\* another
C8_Witness ==
    /\ InClassify
    /\ Finished
    /\ cl.season_rows # <<>>
    /\ cl.no_match_rows # <<>>

\* C9 as stated: the first attempt of a call that follows a call which ran out
\* of retries on 429 answers sleeps more than the base delay.
C9_ThrottlingCarriesOver ==
    (pc = "attempt" /\ ft.attempt = 1 /\ exhausted) => ft.delay > REQUEST_DELAY

\* the delays of the running or latest call: those slept, and the one the
\* pending attempt is about to sleep
Delays == IF pc = "attempt" THEN Append(ft.slept, ft.delay) ELSE ft.slept

\* C10: within one call the delays slept before successive attempts never
\* decrease and never exceed MAX_DELAY.
C10_DelaysMonotoneCapped ==
    \A i \in DOMAIN Delays :
        /\ Delays[i] <= MAX_DELAY
        /\ i > 1 => Delays[i - 1] <= Delays[i]

\* a call answered by 429 at every attempt: it slept from the base delay up
\* to the cap
C10_Witness ==
    /\ exhausted
    /\ pc = "returned"
    /\ Len(ft.slept) = MAX_RETRIES
    /\ ft.slept[1] = REQUEST_DELAY
    /\ ft.slept[1] < ft.slept[2]
    /\ ft.slept[MAX_RETRIES] = MAX_DELAY

\* C11: when a call returns a body the shared delay is the base delay, and
\* the call that follows starts its first attempt with the base delay,
\* however many 429 answers came before the body.
C11_SuccessResets ==
    [][/\ (pc' = "returned" /\ html' # None) => _current_delay' = REQUEST_DELAY
       /\ (pc = "returned" /\ html # None /\ pc' = "attempt")
              => (ft'.attempt = 1 /\ ft'.delay = REQUEST_DELAY)]_vars

\* a body came after 429 answers, at a delay above the base, and another
\* call can follow
C11_Witness ==
    /\ pc = "returned"
    /\ html # None
    /\ Len(ft.answers) >= 3
    /\ ft.slept[Len(ft.slept)] > REQUEST_DELAY
    /\ _current_delay = REQUEST_DELAY
    /\ calls < MaxCalls

\* C12: a call makes at most MAX_RETRIES attempts, and one answered by 429
\* at each of them has returned None with the answer of the last.
C12_AtMostMaxRetries ==
    /\ Len(ft.answers) <= MAX_RETRIES
    /\ Len(ft.slept) <= MAX_RETRIES
    /\ ft.attempt <= MAX_RETRIES
    /\ (Len(ft.answers) = MAX_RETRIES /\ \A i \in DOMAIN ft.answers : ft.answers[i] = "429")
           => (pc = "returned" /\ html = None)

\* a call got MAX_RETRIES answers 429 and returned None
C12_Witness ==
    /\ pc = "returned"
    /\ html = None
    /\ ft.answers = [i \in 1..MAX_RETRIES |-> "429"]

C14_SleepBeforeRequest ==
    /\ pc = "request" => (/\ Len(ft.slept) = Len(ft.answers) + 1
                          /\ ft.slept[Len(ft.slept)] = ft.delay)
    /\ pc # "request" => Len(ft.slept) = Len(ft.answers)

\* the request of the first attempt of a later call is out, after its sleep
C14_Witness ==
    /\ pc = "request"
    /\ calls >= 2
    /\ ft.attempt = 1
    /\ ft.slept = <<REQUEST_DELAY>>
    /\ ft.answers = <<>>

\* the latest classify_athletes call has returned: cl and trace are as it
\* left them
Returned == pc \in {"stage", "done"} /\ trace # NoTrace

\* the records whose live resolution failed
Failed == {k \in DOMAIN trace.result : trace.result[k] = Some(None)}

AfterKilledRun == interrupted.run > 0 /\ run = interrupted.run + 1

\* C16 as stated: the run after a killed run scrapes none of the athletes
\* the killed run had resolved by a scrape before it was killed.
C16_OnlyInFlightLost ==
    (InClassify /\ AfterKilledRun) =>
        \A k \in 1..Len(Athletes) :
            (/\ Passed(k)
             /\ <<RowId(Athletes[k]), Season>>
                    \in interrupted.unwritten \cup interrupted.written)
            => ~Scraped(k)

\* C16, amended: the run after a killed run does not scrape the athletes the
\* killed run had scraped in a season whose tables it had written, and it
\* scrapes again every athlete the killed run had scraped in the season it
\* was killed in.
C16_SeasonInProgressLost ==
    (InClassify /\ AfterKilledRun) =>
        \A k \in 1..Len(Athletes) : Passed(k) =>
            /\ <<RowId(Athletes[k]), Season>> \in interrupted.written
                  => (~Scraped(k) /\ ~trace.fetched[k] /\ GamesOf(k) # {})
            /\ <<RowId(Athletes[k]), Season>> \in interrupted.unwritten
                  => Scraped(k)

\* a run was killed in its Summer scrape after it had written Winter rows it
\* scraped; the next run is scraping a Summer athlete again that the killed
\* run had resolved
C16_Witness ==
    /\ InClassify
    /\ AfterKilledRun
    /\ Season = "Summer"
    /\ interrupted.written # {}
    /\ \E k \in 1..Len(Athletes) :
          /\ Passed(k)
          /\ <<RowId(Athletes[k]), Season>> \in interrupted.unwritten
          /\ trace.fetched[k]

\* the rows of the results tables the index was built from
AllResultRows ==
    Range(input.results)
        \cup (IF input.new_results = None THEN {} ELSE Range(input.new_results[1]))

\* the rows of the results tables that carry editions e for athlete aid
HasResult(aid, e) == \E r \in AllResultRows : RowId(r) = aid /\ r["Games"] = e

\* C17: an edition is in an athlete's list of a season exactly when a results
\* row of the athlete carries it and it reads <year> <Season> Olympics, with
\* nothing else after the season, for a year from 1924 on.
C17_EditionFilter ==
    pc # "index" =>
        \A aid \in {RowId(r) : r \in AllResultRows} \ {""} :
            \A e \in {r["Games"] : r \in AllResultRows} \cup {<<1924, "Winter", "Olympics">>} :
                /\ e \in Range(LookupGet(winter_lookup, aid))
                       <=> (/\ HasResult(aid, e)
                            /\ e[2] = "Winter" /\ e[3] = "Olympics" /\ e[1] >= 1924)
                /\ e \in Range(LookupGet(summer_lookup, aid))
                       <=> (/\ HasResult(aid, e)
                            /\ e[2] = "Summer" /\ e[3] = "Olympics" /\ e[1] >= 1924)

\* of the rows 1920 Winter Olympics, 1924 Winter Olympics and 1924 Winter
\* Youth Olympics of one athlete only the second is kept
C17_Witness ==
    /\ pc # "index"
    /\ \A e \in {<<1920, "Winter", "Olympics">>, <<1924, "Winter", "Olympics">>,
                 <<1924, "Winter", "Youth Olympics">>} : HasResult("1", e)
    /\ "1" \in DOMAIN winter_lookup
    /\ winter_lookup["1"] = <<<<1924, "Winter", "Olympics">>>>

\* the rows of a results table that carry an identifier
IdRows(rows) == SelectIn(rows, {r \in Range(rows) : RowId(r) # ""})

\* C18: seen_ids holds exactly the non-empty identifiers of the rows of the
\* results tables, whatever their editions; the lookups hold seen athletes
\* only, and the rows without identifier change nothing.
C18_SeenSet ==
    pc # "index" =>
        /\ seen_ids = {RowId(r) : r \in AllResultRows} \ {""}
        /\ (DOMAIN winter_lookup \cup DOMAIN summer_lookup) \subseteq seen_ids
        /\ [seen_ids |-> seen_ids, winter_lookup |-> winter_lookup,
            summer_lookup |-> summer_lookup]
              = BuildIndex(IdRows(input.results),
                           IF input.new_results = None THEN None
                           ELSE Some(IdRows(input.new_results[1])))

\* an athlete is seen through a row of the supplementary table alone, with
\* an edition of no season, while a row without identifier carries a Winter
\* edition
C18_Witness ==
    /\ pc # "index"
    /\ "1" \in seen_ids
    /\ "1" \notin DOMAIN winter_lookup \cup DOMAIN summer_lookup
    /\ "1" \notin {RowId(r) : r \in Range(input.results)}
    /\ \E r \in Range(input.results) :
          RowId(r) = "" /\ r["Games"] = <<2022, "Winter", "Olympics">>

\* the years of the editions of l grow strictly
YearsAscending(l) == \A i, j \in DOMAIN l : i < j => l[i][1] < l[j][1]

\* C19: once the index is built, the supplementary table merged, every list
\* of both lookups is in ascending order without repetition.
C19_LookupsSorted ==
    pc # "index" =>
        /\ \A aid \in DOMAIN winter_lookup : YearsAscending(winter_lookup[aid])
        /\ \A aid \in DOMAIN summer_lookup : YearsAscending(summer_lookup[aid])

\* results.csv lists 2022 twice, the supplementary table adds 1924
C19_Witness ==
    /\ pc # "index"
    /\ Len(input.results) = 2
    /\ input.results[1] = [athlete_id |-> "1", Games |-> <<2022, "Winter", "Olympics">>]
    /\ input.results[2] = input.results[1]
    /\ input.new_results
           = Some(<<[athlete_id |-> "1", Games |-> <<1924, "Winter", "Olympics">>]>>)
    /\ winter_lookup["1"] = <<<<1924, "Winter", "Olympics">>, <<2022, "Winter", "Olympics">>>>

\* the cache has just been built from the output directories
CacheBuilt == pc = "stage" /\ stage = 1

RowsFor(dir, aid) ==
    {r \in Range(FileRows(dir, "all-states.csv"))
              \cup Range(FileRows(dir, "us-born-elsewhere.csv")) : RowId(r) = aid}

Reverse(s) == [i \in 1..Len(s) |-> s[Len(s) + 1 - i]]

\* a matched table with its rows in the opposite order
ReverseTable(t) == IF t = None THEN None ELSE Some(Reverse(t[1]))

\* the output directories with the rows of every matched table reversed
RowsReversed(d) ==
    [s \in Seasons |-> [d[s] EXCEPT
        !["all-states.csv"] = ReverseTable(@),
        !["us-born-elsewhere.csv"] = ReverseTable(@)]]

\* the output directories with the two matched tables of each season
\* exchanged
TablesSwapped(d) ==
    [s \in Seasons |-> [d[s] EXCEPT
        !["all-states.csv"] = d[s]["us-born-elsewhere.csv"],
        !["us-born-elsewhere.csv"] = d[s]["all-states.csv"]]]

\* the number of rows of a season's matched tables that carry identifier aid
NumRowsFor(dir, aid) ==
    Cardinality({p \in DOMAIN FileRows(dir, "all-states.csv") :
                    RowId(FileRows(dir, "all-states.csv")[p]) = aid})
    + Cardinality({p \in DOMAIN FileRows(dir, "us-born-elsewhere.csv") :
                    RowId(FileRows(dir, "us-born-elsewhere.csv")[p]) = aid})

\* the editions of E in ascending order, each once
AscendingList(E) ==
    CHOOSE l \in [1..Cardinality(E) -> E] : Range(l) = E /\ IsSortedSeq(l)

\* C21: for an athlete with several rows in the matched tables of a season the
\* cache entry is the list of all editions of those rows, each once, in
\* ascending order; and the cache is the same when the rows of the tables are
\* read in the opposite order or the two tables are read the other way round.
C21_UnionAnyOrder ==
    CacheBuilt =>
        /\ \A aid \in DOMAIN _output_cache : \A season \in Seasons :
              NumRowsFor(disk[season], aid) >= 2 =>
                  _output_cache[aid][season]
                      = Some(AscendingList(UNION {Range(SplitGames(r["Games"])) :
                                                     r \in RowsFor(disk[season], aid)}))
        /\ build_output_cache(RowsReversed(disk)) = _output_cache
        /\ build_output_cache(TablesSwapped(disk)) = _output_cache
        /\ build_output_cache(TablesSwapped(RowsReversed(disk))) = _output_cache

\* athlete 1 has the row 2022; 2018 in one Winter table and the row 2022 in
\* the other: the entry lists 2018 and 2022 once each
C21_Witness ==
    /\ CacheBuilt
    /\ \E r \in Range(FileRows(disk["Winter"], "all-states.csv")) :
          RowId(r) = "1" /\ Len(SplitGames(r["Games"])) = 2
    /\ \E r \in Range(FileRows(disk["Winter"], "us-born-elsewhere.csv")) :
          RowId(r) = "1" /\ Len(SplitGames(r["Games"])) = 1
    /\ CacheGet(_output_cache, "1", "Winter")
           = Some(<<<<2018, "Winter", "Olympics">>, <<2022, "Winter", "Olympics">>>>)

\* a matched table, an empty one in place of a missing one
OrEmpty(t) == IF t = None THEN Some(<<>>) ELSE t

\* the output directories with an empty table in place of every missing
\* matched table
MissingAsEmpty(d) ==
    [s \in Seasons |-> [d[s] EXCEPT
        !["all-states.csv"] = OrEmpty(@),
        !["us-born-elsewhere.csv"] = OrEmpty(@)]]

\* no matched table of an earlier run exists
NoMatchedTable(d) ==
    \A s \in Seasons :
        d[s]["all-states.csv"] = None /\ d[s]["us-born-elsewhere.csv"] = None

\* C22: the cache is built whatever matched tables are missing: a missing
\* table adds nothing, as an empty one would, and takes nothing from what the
\* tables that exist add; with no matched table at all the cache is empty,
\* and then every athlete outside the index is unseen and put on the scrape
\* list.
C22_MissingTablesSkipped ==
    /\ CacheBuilt =>
          /\ _output_cache = build_output_cache(MissingAsEmpty(disk))
          /\ NoMatchedTable(disk) => _output_cache = EmptyMap
    /\ (InClassify /\ _output_cache = EmptyMap) =>
          \A k \in 1..Len(Athletes) :
              (Passed(k) /\ RowId(Athletes[k]) \notin seen_ids)
                  => (CacheGet(_output_cache, RowId(Athletes[k]), Season) = None
                      /\ Scraped(k))

\* the cache has been built from directories where the first table of a
\* season is missing and the second holds a row
C22_Witness ==
    /\ CacheBuilt
    /\ disk["Summer"]["all-states.csv"] = None
    /\ disk["Summer"]["us-born-elsewhere.csv"] # None
    /\ disk["Winter"]["us-born-elsewhere.csv"] = None
    /\ CacheGet(_output_cache, "2", "Summer") # None

\* a first run without output directories has put an athlete outside the
\* index on the scrape list
C22_WitnessEmpty ==
    /\ InClassify
    /\ run = 1
    /\ Season = "Winter"
    /\ NoMatchedTable(disk)
    /\ _output_cache = EmptyMap
    /\ \E k \in 1..Len(Athletes) :
          Passed(k) /\ RowId(Athletes[k]) = "2" /\ Scraped(k)

\* search_and_find_season has returned for the record of the scrape loop
\* and had got its search page
SearchDone == pc = "outcome" /\ trace.searched # None /\ trace.searched[1] # None

\* the identifiers of the links of the search page whose href is /athletes/
\* followed by digits and nothing else, in document order
ProfileLinks ==
    LET links == trace.searched[1][1]
        ps    == SelectSeq(links, LAMBDA l : /\ l.href # None
                                             /\ l.href[1] = "athletes"
                                             /\ l.href[2] \in DigitStrings
                                             /\ l.href[3] = "")
    IN  [i \in DOMAIN ps |-> ps[i].href[2]]

\* C23: the profiles fetched by a name-based lookup are the first profile
\* links of the search page, in document order; the fetch of every one but
\* the last failed; when the fetch of the last did not fail, the lookup
\* returned the season list of that page, empty or not, and no later candidate
\* was fetched; and nothing else was fetched but the search page.
C23_FirstNonFailure ==
    SearchDone =>
        /\ Len(trace.pages) = Len(trace.tried)
        /\ Len(trace.tried) <= Len(ProfileLinks)
        /\ trace.tried = SubSeq(ProfileLinks, 1, Len(trace.tried))
        /\ trace.nfetch = 1 + Len(trace.tried)
        /\ \A i \in 1..(Len(trace.pages) - 1) : trace.pages[i] = None
        /\ games # None =>
              /\ trace.pages # <<>>
              /\ trace.pages[Len(trace.pages)] # None
              /\ games = games_from_page(trace.pages[Len(trace.pages)], Season)
        /\ games = None =>
              /\ Len(trace.tried) = Len(ProfileLinks)
              /\ \A i \in DOMAIN trace.pages : trace.pages[i] = None

\* the fetch of the first candidate failed, the page of the second lists no
\* edition of the season: the lookup returned the empty list
C23_Witness ==
    /\ SearchDone
    /\ Len(ProfileLinks) = 2
    /\ Len(trace.pages) = 2
    /\ trace.pages[1] = None
    /\ trace.pages[2] # None
    /\ games = Some(<<>>)

\* the first of two candidates answered: the second was not fetched
C23_WitnessFirst ==
    /\ SearchDone
    /\ Len(ProfileLinks) = 2
    /\ trace.tried = <<ProfileLinks[1]>>
    /\ trace.nfetch = 2
    /\ games = Some(<<>>)

\* a name-based lookup has returned and no candidate gave a result: the
\* fetch of the search page failed, or the page holds no profile link, or the
\* fetch of every profile it links failed
NoCandidateResult ==
    /\ pc = "outcome"
    /\ trace.searched # None
    /\ \/ trace.searched[1] = None
       \/ ProfileLinks = <<>>
       \/ /\ Len(trace.pages) = Len(ProfileLinks)
          /\ \A i \in DOMAIN trace.pages : trace.pages[i] = None

\* C24: a name-based lookup in which no candidate gave a result has returned
\* None, not the empty list, and the step that follows appends a no-match row
\* for the record, and no season row.
C24_NoCandidateIsFailure ==
    [][NoCandidateResult =>
          /\ games = None
          /\ cl'.no_match_rows
                 = Append(cl.no_match_rows,
                          build_out_row(cl.needs_scrape[cl.j], EmptyGamesStr, OutFields))
          /\ cl'.season_rows = cl.season_rows
          /\ trace'.nm_of = Append(trace.nm_of, trace.need_idx[cl.j])]_vars

\* a call finished with a no-match row for a record without identifier whose
\* name was searched
C24_Witness ==
    /\ InClassify
    /\ Finished
    /\ \E k \in 1..Len(Athletes) :
          /\ RowId(Athletes[k]) = ""
          /\ trace.fetched[k]
          /\ trace.result[k] = Some(None)
          /\ Positions(trace.nm_of, k) # {}
          /\ build_out_row(Athletes[k], EmptyGamesStr, OutFields) \in Range(cl.no_match_rows)

\* the three ways to no result: no search page, no profile link, no profile
C24_WitnessNoPage == NoCandidateResult /\ trace.searched[1] = None
C24_WitnessNoLink == NoCandidateResult /\ trace.searched[1] # None /\ ProfileLinks = <<>>
C24_WitnessNoProfile == NoCandidateResult /\ trace.searched[1] # None /\ Len(trace.pages) = 2

\* games_from_page has come to its end for the page it was given last
PageDone == pc \in {"outcome", "crashed"} /\ trace.pages # <<>>

\* the editions of the season that the links of a page give: links to an
\* edition whose text starts with a year from MIN_YEAR on, the season and
\* "Olympics"
PageEditions(links, season) ==
    {<<l.text.ed[1], season, "Olympics">> :
        l \in {l \in Range(links) :
                  /\ l.href # None
                  /\ l.href[1] = "editions"
                  /\ l.text.pre = ""
                  /\ l.text.ed[1] \in 1000..9999
                  /\ l.text.ed[2] = season
                  /\ l.text.ed[3] \in OlympicsPrefixed
                  /\ l.text.ed[1] >= MIN_YEAR}}

\* C25 as stated: games_from_page returns None exactly when the fetch
\* failed, and for every page fetched it returns the editions of the season
\* that the edition links of the page give, each once, in ascending order.
C25_NoneIffFetchFailed ==
    PageDone =>
        LET h == trace.pages[Len(trace.pages)]
        IN  /\ pc = "outcome"
            /\ (games = None) <=> (h = None)
            /\ h # None => games = Some(AscendingList(PageEditions(h[1], Season)))

\* what holds instead: games_from_page raises exactly for a page with an
\* anchor whose href has no value, and returns as stated for every other
C25_ListUnlessRaised ==
    PageDone =>
        LET h == trace.pages[Len(trace.pages)]
        IN  /\ pc = "crashed" <=> (h # None /\ \E l \in Range(h[1]) : l.href = None)
            /\ pc = "outcome" =>
                  /\ (games = None) <=> (h = None)
                  /\ h # None => games = Some(AscendingList(PageEditions(h[1], Season)))

\* the handler call e is for the start tag, the end tag of an anchor
IsStartA(e) == e.kind = "start" /\ e.tag = "a"
IsEndA(e)   == e.kind = "end" /\ e.tag = "a"

RECURSIVE ClosedAnchors(_, _, _)
\* the anchor elements of the calls ev that are closed, in the order of their
\* end tags, each with its own href and all character data between its start
\* tag and its end tag: an end tag closes the anchor opened last that is
\* still open; open holds the anchors still open, out those closed
ClosedAnchors(ev, open, out) ==
    IF ev = <<>> THEN out
    ELSE LET e == Head(ev)
         IN  IF IsStartA(e)
             THEN ClosedAnchors(Tail(ev), Append(open, <<HrefAttr(e.attrs), <<>>>>), out)
             ELSE IF IsEndA(e) /\ open # <<>>
             THEN ClosedAnchors(Tail(ev), SubSeq(open, 1, Len(open) - 1),
                                Append(out, open[Len(open)]))
             ELSE IF e.kind = "data"
             THEN ClosedAnchors(Tail(ev),
                      [k \in DOMAIN open |-> <<open[k][1], open[k][2] \o e.data>>], out)
             ELSE ClosedAnchors(Tail(ev), open, out)

\* C26 as stated: whatever start tags, end tags and data the parser is fed,
\* its links are the closed anchor elements, one pair each, with the href of
\* the anchor and the character data inside it.
C26_OnePairPerClosedAnchor ==
    parser.links = ClosedAnchors(parser.fed, <<>>, <<>>)

\* the last call before call j that is for the start tag (the end tag) of an
\* anchor, 0 when there is none
LastStartA(j) ==
    LET S == {i \in 1..(j - 1) : IsStartA(parser.fed[i])}
    IN  IF S = {} THEN 0 ELSE CHOOSE i \in S : \A k \in S : k <= i
LastEndA(j) ==
    LET S == {i \in 1..(j - 1) : IsEndA(parser.fed[i])}
    IN  IF S = {} THEN 0 ELSE CHOOSE i \in S : \A k \in S : k <= i

\* the end tags of an anchor that follow a start tag of an anchor with no
\* other end tag of an anchor in between
EmitPoints ==
    {j \in DOMAIN parser.fed : IsEndA(parser.fed[j]) /\ LastStartA(j) > LastEndA(j)}

RECURSIVE DataBetween(_, _)
\* the character data of the calls i+1 .. j-1
DataBetween(i, j) ==
    IF i + 1 >= j THEN <<>>
    ELSE (IF parser.fed[i + 1].kind = "data" THEN parser.fed[i + 1].data ELSE <<>>)
             \o DataBetween(i + 1, j)

\* the numbers of S in ascending order
AscendingNats(S) ==
    CHOOSE f \in [1..Cardinality(S) -> S] :
        \A a, b \in 1..Cardinality(S) : a < b => f[a] < f[b]

\* C26, amended: the parser emits one pair at every end tag of an anchor that
\* follows a start tag of an anchor with no other such end tag in between, in
\* the order of these end tags; the href is that of the last anchor start tag
\* before the end tag, the text is the character data since that start tag
\* without leading and trailing blanks.  An anchor that is followed by
\* another anchor start tag before an end tag gives no pair, nor does an
\* anchor left open or an end tag without open anchor.
C26_PairPerEndTag ==
    LET js == AscendingNats(EmitPoints)
    IN  parser.links =
            [n \in DOMAIN js |->
                <<HrefAttr(parser.fed[LastStartA(js[n])].attrs),
                  Strip(DataBetween(LastStartA(js[n]), js[n]))>>]

\* an anchor with text holds another anchor and both are closed: the only
\* pair is that of the inner anchor
C26_Witness ==
    /\ Len(parser.fed) = 5
    /\ IsStartA(parser.fed[1])
    /\ parser.fed[2].kind = "data"
    /\ IsStartA(parser.fed[3])
    /\ IsEndA(parser.fed[4])
    /\ IsEndA(parser.fed[5])
    /\ parser.fed[1].attrs # parser.fed[3].attrs
    /\ parser.links = <<<<HrefAttr(parser.fed[3].attrs), <<>>>>>>

\* an anchor whose text is x between blanks gives the text x
C26_WitnessStrip ==
    /\ Len(parser.fed) = 5
    /\ IsStartA(parser.fed[1])
    /\ \A i \in 2..4 : parser.fed[i].kind = "data"
    /\ IsEndA(parser.fed[5])
    /\ parser.links = <<<<HrefAttr(parser.fed[1].attrs), <<"x">>>>>>

\* the place of the last c in s, 0 when s holds none
LastOf(s, c) ==
    LET S == {i \in DOMAIN s : s[i] = c}
    IN  IF S = {} THEN 0 ELSE CHOOSE i \in S : \A k \in S : k <= i

\* what the statement gives for a Born field: with t the field without its
\* trailing blanks, q the place of its last "(" and p that of its last comma,
\* the field ends with an upper-case code in parentheses when t ends with
\* ")" and only upper-case letters, at least one, stand between q and the
\* end; the state is then what stands between p and q, trimmed, if p is
\* before q and something stands between them
BornExpected(born) ==
    LET t == RStrip(born)
        n == Len(t)
        q == LastOf(t, "(")
        p == LastOf(t, ",")
    IN  IF /\ n > 0
           /\ t[n] = ")"
           /\ q > 0
           /\ q + 1 < n
           /\ \A k \in (q + 1)..(n - 1) : t[k] \in UpperChars
           /\ p > 0
           /\ p + 1 < q
        THEN Strip(SubSeq(t, p + 1, q - 1))
        ELSE <<"U", "n", "k", "n", "o", "w", "n">>

\* the first loop has grouped the season row of the roster's first record
KeyGiven == pc = "loop" /\ stage = 1 /\ cl.i = 2 /\ cl.season_rows # <<>>

\* C27: the state a row is grouped under is the trimmed text between the last
\* comma of the Born field and the upper-case code in parentheses that ends
\* it, and Unknown when the field does not end that way after a comma:
\* Montana for "12 May 1990 in Helena, Montana (USA)", Unknown for
\* "in Paris (FRA)".
C27_BornState ==
    KeyGiven =>
        LET born == input.all_states_athletes[1]["Born"]
            key  == cl.season_rows[1][1]
        IN  /\ key = BornExpected(born)
            /\ born = BornHelena => key = <<"M", "o", "n", "t", "a", "n", "a">>
            /\ born = BornParis => key = <<"U", "n", "k", "n", "o", "w", "n">>

\* the row of the athlete born in Helena is grouped under Montana
C27_Witness ==
    /\ KeyGiven
    /\ input.all_states_athletes[1]["Born"] = BornHelena
    /\ cl.season_rows[1][1] = <<"M", "o", "n", "t", "a", "n", "a">>

\* a field with two commas
C27_WitnessLastComma ==
    /\ KeyGiven
    /\ input.all_states_athletes[1]["Born"] = <<",", ",", "m", "(", "U", ")">>
    /\ cl.season_rows[1][1] = <<"m">>

\* the season's tables have been written by the running process
Written(season) ==
    IF season = "Winter"
    THEN stage > 3 \/ pc = "done"
    ELSE pc = "done"

\* the rows that classify_athletes returned for the state-born roster
StatesRows(season) ==
    IF season = "Winter" THEN script[1].season_rows ELSE script[4].season_rows

\* the number of rows of keyed_rows that are grouped under key
NumUnder(keyed_rows, key) ==
    Cardinality({p \in DOMAIN keyed_rows : keyed_rows[p][1] = key})

\* C28: count.csv of a season holds the row (state, n) exactly for the states
\* of states_list under which n > 0 of the season rows of the state-born
\* roster are grouped, once each; a state of the list without such a row and
\* a name that is not in the list get no row.
C28_CountTable ==
    \A season \in Seasons : Written(season) =>
        LET count == disk[season]["count.csv"][1]
            rows  == StatesRows(season)
        IN  /\ Range(count)
                  = {<<st, NumUnder(rows, st)>> :
                        st \in {st \in Range(input.states_list) : NumUnder(rows, st) > 0}}
            /\ Len(count) = Cardinality(Range(count))
            /\ \A key \in {rows[p][1] : p \in DOMAIN rows} \ Range(input.states_list) :
                  \A c \in Range(count) : c[1] # key

\* Winter is written with one row under a state of the list and one under
\* Unknown: the table holds the first state alone, with the number 1
C28_Witness ==
    /\ Written("Winter")
    /\ Len(StatesRows("Winter")) = 2
    /\ NumUnder(StatesRows("Winter"), StateMt) = 1
    /\ NumUnder(StatesRows("Winter"), <<"U", "n", "k", "n", "o", "w", "n">>) = 1
    /\ disk["Winter"]["count.csv"] = Some(<< <<StateMt, 1>> >>)

\* two rows under one state; one row under each of two states
C28_WitnessTwo ==
    Written("Winter") /\ disk["Winter"]["count.csv"] = Some(<< <<StateMt, 2>> >>)
C28_WitnessBoth ==
    Written("Winter")
        /\ disk["Winter"]["count.csv"] = Some(<< <<StateId, 1>>, <<StateMt, 1>> >>)

\* the numbers of seq rise strictly
Rising(seq) == \A p, q \in DOMAIN seq : p < q => seq[p] < seq[q]

\* record k of the running call is resolved: the first loop took the Known
\* or the Cached branch for it, or its live resolution has returned
Resolved(k) ==
    \/ trace.how[k] \in {"known", "cached"}
    \/ trace.how[k] = "scrape" /\ trace.result[k] # None

\* C29 as stated: of two records of one input list the earlier is resolved
\* before the later, and the season rows are appended in the order of the
\* records, whichever branch each record takes.
C29_InputOrder ==
    InClassify =>
        /\ \A i, j \in 1..Len(Athletes) : i < j /\ Resolved(j) => Resolved(i)
        /\ Rising(trace.rows_of)

\* C29: the first loop takes the records in input order, decides the branch
\* of each and appends the season row of a Known or Cached record at once;
\* the records put on needs_scrape are resolved live afterwards, in input
\* order among themselves, none before the first loop has passed every record
\* of the list. So the season rows are those of the Known and Cached records
\* in input order followed by those of the scraped records in input order,
\* and the no-match rows are in input order.
C29_TwoPassOrder ==
    InClassify =>
        /\ \A k \in 1..Len(Athletes) : trace.how[k] # "pending" <=> k < cl.i
        /\ Rising(trace.need_idx)
        /\ Range(trace.need_idx) = {k \in 1..Len(Athletes) : trace.how[k] = "scrape"}
        /\ Len(cl.needs_scrape) = Len(trace.need_idx)
        /\ \A p \in DOMAIN cl.needs_scrape :
              cl.needs_scrape[p] = Athletes[trace.need_idx[p]]
        /\ \A k \in 1..Len(Athletes) :
              trace.result[k] # None
                  <=> \E p \in 1..(cl.j - 1) : trace.need_idx[p] = k
        /\ cl.j > 1 \/ pc # "loop" => cl.i > Len(Athletes)
        /\ Len(cl.season_rows) = Len(trace.rows_of)
        /\ \A p \in DOMAIN cl.season_rows :
              SameRecord(cl.season_rows[p][2], Athletes[trace.rows_of[p]])
        /\ \A p, q \in DOMAIN trace.rows_of : p < q =>
              LET a == trace.rows_of[p]
                  b == trace.rows_of[q]
              IN  IF trace.how[a] = "scrape"
                  THEN trace.how[b] = "scrape" /\ a < b
                  ELSE trace.how[b] = "scrape" \/ a < b
        /\ Rising(trace.nm_of)

\* the first record was scraped and the second is Known: the row of the
\* second record stands before the row of the first
C29_Witness ==
    /\ InClassify
    /\ Len(Athletes) = 2
    /\ trace.how = <<"scrape", "known">>
    /\ trace.rows_of = <<2, 1>>
    /\ RowId(cl.season_rows[1][2]) = "1"
    /\ RowId(cl.season_rows[2][2]) = "2"

\* the second record is resolved while the first still waits for its scrape
C29_WitnessWaiting ==
    /\ pc = "fetch"
    /\ Len(Athletes) = 2
    /\ Resolved(2)
    /\ ~Resolved(1)
    /\ trace.rows_of = <<2>>

\* two Known records, and two scraped records, have their rows in input order
C29_WitnessKnown ==
    InClassify /\ trace.how = <<"known", "known">> /\ trace.rows_of = <<1, 2>>
        /\ cl.season_rows[1][1] # cl.season_rows[2][1]
C29_WitnessScraped ==
    InClassify /\ trace.how = <<"scrape", "scrape">> /\ trace.rows_of = <<1, 2>>

\* which part of the script a position belongs to
PhaseAt(p, s) ==
    IF p \in {"index", "cache"} THEN "setup"
    ELSE IF p = "done" THEN "end"
    ELSE Stages[s].season

\* C30: within one run of the script the work for Winter is over before the
\* work for Summer begins: every step that classifies a record or fetches a
\* page works for the season the script is in; the script passes from Winter
\* to Summer in the one step that writes the Winter files, outside every
\* classify_athletes call and every fetch; and once in Summer it never
\* returns to Winter.
C30_WinterBeforeSummer ==
    [][run' = run =>
          LET phase == PhaseAt(pc, stage)
              next  == PhaseAt(pc', stage')
          IN  /\ phase = "setup"  => next \in {"setup", "Winter"}
              /\ phase = "Winter" => next \in {"Winter", "Summer"}
              /\ phase = "Summer" => next \in {"Summer", "end"}
              /\ phase = "end"    => next = "end"
              /\ phase = "Winter" /\ next = "Summer" =>
                    /\ pc = "stage" /\ pc' = "stage"
                    /\ Stages[stage].what = "write"
                    /\ disk'["Winter"] =
                          SeasonFiles(disk["Winter"], input.states_list,
                              script[1].season_rows, script[2].season_rows,
                              script[1].no_match_rows \o script[2].no_match_rows)
              /\ InClassify \/ InClassify' =>
                    /\ phase \in Seasons
                    /\ next = phase \/ (pc' = "stage" /\ ~InClassify')
              /\ (pc = "fetch" /\ pc' = "fetched") \/ cl' # cl =>
                    /\ Stages[stage].what # "write"
                    /\ stage' = stage]_vars

\* a page is being fetched for Summer for an athlete whom this run, the
\* first, has looked up for Winter on an empty cache
C30_Witness ==
    /\ run = 1
    /\ pc = "fetch"
    /\ Season = "Summer"
    /\ trace.nfetch > 0
    /\ \E p \in DOMAIN script[1].season_rows :
          /\ RowId(script[1].season_rows[p][2]) \notin seen_ids
          /\ RowId(script[1].season_rows[p][2]) = RowId(cl.needs_scrape[cl.j])
    /\ disk["Winter"]["all-states.csv"] # Some(<<>>)

\* the positions of needs_scrape that hold a record with identifier aid
ScrapesOf(aid) ==
    {p \in DOMAIN trace.need_idx : RowId(Athletes[trace.need_idx[p]]) = aid}

\* the records of the list with identifier aid
RecordsOf(aid) == {k \in DOMAIN Athletes : RowId(Athletes[k]) = aid}

RosterIds == {RowId(Athletes[k]) : k \in DOMAIN Athletes} \ {""}

\* C31: no athlete identifier is put up for a live resolution more than once
\* in one classify_athletes call.
C31_IdResolvedOnce ==
    InClassify => \A aid \in RosterIds : Cardinality(ScrapesOf(aid)) <= 1

\* what holds record by record: every record of the list is decided
\* once: the branch the first loop took for it never changes, a Known or
\* Cached record never gets a live result, a record on needs_scrape stands
\* there once and the result of its live resolution, once there, never
\* changes. An identifier is live-resolved once for each record of the list
\* that carries it and needs a scrape, so once at most when one record
\* carries it.
C31_DecidedOnce ==
    [][InClassify /\ InClassify' =>
          /\ \A k \in DOMAIN Athletes :
                /\ trace.how[k] # "pending" => trace'.how[k] = trace.how[k]
                /\ trace.result[k] # None => trace'.result[k] = trace.result[k]
                /\ trace'.result[k] # None => trace'.how[k] = "scrape"
                /\ Cardinality(Positions(trace'.need_idx, k)) <= 1
          /\ \A aid \in RosterIds :
                /\ Cardinality(ScrapesOf(aid))' <= Cardinality(RecordsOf(aid))
                /\ Cardinality(RecordsOf(aid)) = 1 => Cardinality(ScrapesOf(aid))' <= 1
          /\ pc = "fetch" /\ call = "page" /\ cands = <<>> =>
                trace.result[trace.need_idx[cl.j]] = None]_vars

\* the list holds two records with one identifier and both were resolved
\* live, with different results
C31_Witness ==
    /\ InClassify
    /\ Len(Athletes) = 2
    /\ RowId(Athletes[1]) = RowId(Athletes[2])
    /\ trace.need_idx = <<1, 2>>
    /\ trace.result[1] = Some(None)
    /\ trace.result[2] \notin {None, Some(None)}

\* two records with different identifiers, each resolved live once
C31_WitnessDistinct ==
    /\ InClassify
    /\ Len(Athletes) = 2
    /\ RowId(Athletes[1]) # RowId(Athletes[2])
    /\ trace.need_idx = <<1, 2>>
    /\ trace.result[1] # None
    /\ trace.result[2] # None

\* the index and the output cache of the running process have been built
Constructed == pc \notin {"index", "cache"}

\* C32: once built, seen_ids, winter_lookup, summer_lookup and _output_cache
\* are changed by no step of the run, whether it classifies a record (one
\* whose identifier they do not hold included), fetches or writes a season's
\* files: the index is the one built from the results tables, the cache is
\* the one built from the files found at the start, and the Summer calls see
\* the cache the Winter calls saw even after the Winter files are rewritten.
C32_IndexAndCacheFrozen ==
    [][/\ Constructed /\ run' = run =>
             UNCHANGED <<seen_ids, winter_lookup, summer_lookup, _output_cache>>
       /\ Constructed' =>
             LET ix == BuildIndex(input.results, input.new_results)
             IN  /\ seen_ids' = ix.seen_ids
                 /\ winter_lookup' = ix.winter_lookup
                 /\ summer_lookup' = ix.summer_lookup
       /\ pc = "cache" => _output_cache' = build_output_cache(disk)]_vars

\* a Summer call has looked up a record whose identifier is in seen_ids but
\* not in summer_lookup, after the Winter files were written with a row that
\* the cache, built before, does not hold
C32_Witness ==
    /\ InClassify
    /\ Season = "Summer"
    /\ \E k \in DOMAIN Athletes :
          /\ k < cl.i
          /\ RowId(Athletes[k]) \in seen_ids
          /\ RowId(Athletes[k]) \notin DOMAIN summer_lookup
    /\ _output_cache # build_output_cache(disk)

\* row.get(k, "")
RowGet(row, k) == IF k \in DOMAIN row THEN row[k] ELSE ""

\* C33: the row build_out_row returns has exactly the columns of out_fields;
\* in every column but Games it holds what the input record holds there (the
\* empty string when the record has no such column), in Games it holds the
\* string given; out_fields is the header line with its first Roles column
\* renamed to Games, or with Games put in front when it has neither; the
\* input record is the same after the call.
C33_OnlyGamesChanged ==
    built # None =>
        LET b == built[1]
        IN  /\ DOMAIN b.out = Range(b.out_fields)
            /\ \A k \in DOMAIN b.out \ {"Games"} : b.out[k] = RowGet(b.row, k)
            /\ b.out["Games"] = b.games_str
            /\ b.row_after = b.row
            /\ "Games" \in Range(b.out_fields)
            /\ IF "Roles" \in Range(b.fieldnames)
               THEN /\ Len(b.out_fields) = Len(b.fieldnames)
                    /\ \E i \in DOMAIN b.fieldnames :
                          /\ b.fieldnames[i] = "Roles"
                          /\ b.out_fields[i] = "Games"
                          /\ \A j \in DOMAIN b.fieldnames \ {i} :
                                b.out_fields[j] = b.fieldnames[j]
               ELSE IF "Games" \in Range(b.fieldnames)
               THEN b.out_fields = b.fieldnames
               ELSE b.out_fields = <<"Games">> \o b.fieldnames

\* a record with identifier, birth place, Roles and a Games column of its
\* own, under a header with Roles: the row has the identifier and the birth
\* place of the record, no Roles, and the given string for Games
C33_Witness ==
    /\ built # None
    /\ built[1].fieldnames = <<"athlete_id", "Born", "Roles">>
    /\ DOMAIN built[1].row = FieldNames
    /\ built[1].row["Games"] # built[1].games_str
    /\ built[1].row["athlete_id"] # built[1].row["Born"]
    /\ built[1].out = [k \in {"athlete_id", "Born", "Games"} |->
                          IF k = "Games" THEN built[1].games_str
                          ELSE built[1].row[k]]

\* a header without Roles and Games; a record without a column of the header
C33_WitnessNoRoles ==
    /\ built # None
    /\ built[1].fieldnames = <<"athlete_id", "Born">>
    /\ built[1].out_fields = <<"Games", "athlete_id", "Born">>
    /\ DOMAIN built[1].row = {"athlete_id"}
    /\ built[1].out["Born"] = ""

\* how often v stands in seq
Times(seq, v) == Cardinality({p \in DOMAIN seq : seq[p] = v})

\* how often the row v stands under key in keyed_rows
TimesUnder(keyed_rows, key, v) ==
    Cardinality({p \in DOMAIN keyed_rows : keyed_rows[p] = <<key, v>>})

RECURSIVE SumNumbers(_)
\* the sum of the number column of a count table
SumNumbers(count) ==
    IF count = <<>> THEN 0 ELSE Head(count)[2] + SumNumbers(Tail(count))

\* the tables of by-state/ that hold the row v
TablesWith(season, v) ==
    {st \in DOMAIN disk[season]["by-state"] : v \in Range(disk[season]["by-state"][st])}

\* C34 as stated: whatever its state key, every row returned for the
\* state-born roster stands in exactly one table of by-state/ and once in
\* all-states.csv, and the numbers of count.csv add up to the rows returned.
C34_NoRowDropped ==
    \A season \in Seasons : Written(season) =>
        LET rows == StatesRows(season)
            all  == disk[season]["all-states.csv"][1]
        IN  /\ \A p \in DOMAIN rows :
                  /\ Cardinality(TablesWith(season, rows[p][2])) = 1
                  /\ Times(all, rows[p][2]) = Times([q \in DOMAIN rows |-> rows[q][2]],
                                                    rows[p][2])
            /\ SumNumbers(disk[season]["count.csv"][1]) = Len(rows)

\* C34: a row returned for the state-born roster under a key of states_list
\* stands in the table of that state and in no other table of by-state/, and
\* in all-states.csv, as often as it was returned; a row returned under a
\* key that is not in states_list stands in no table; all-states.csv holds
\* nothing else, every table of by-state/ holds the rows of its state in the
\* order returned, and the numbers of count.csv add up to the number of
\* rows of all-states.csv.
C34_RecognizedRowsKept ==
    \A season \in Seasons : Written(season) =>
        LET rows   == StatesRows(season)
            all    == disk[season]["all-states.csv"][1]
            by     == disk[season]["by-state"]
            states == Range(input.states_list)
            kept   == {p \in DOMAIN rows : rows[p][1] \in states}
        IN  /\ \A p \in kept :
                  /\ TablesWith(season, rows[p][2]) = {rows[p][1]}
                  /\ Times(by[rows[p][1]], rows[p][2])
                        = TimesUnder(rows, rows[p][1], rows[p][2])
                  /\ Times(all, rows[p][2])
                        = TimesUnder(rows, rows[p][1], rows[p][2])
            /\ \A p \in DOMAIN rows \ kept :
                  /\ TablesWith(season, rows[p][2]) = {}
                  /\ Times(all, rows[p][2]) = 0
            /\ Len(all) = Cardinality(kept)
            /\ \A st \in DOMAIN by :
                  /\ st \in states
                  /\ Len(by[st]) = NumUnder(rows, st)
                  /\ \A a, b \in DOMAIN by[st] : a < b =>
                        \E p, q \in DOMAIN rows :
                            /\ p < q
                            /\ rows[p] = <<st, by[st][a]>>
                            /\ rows[q] = <<st, by[st][b]>>
            /\ SumNumbers(disk[season]["count.csv"][1]) = Len(all)

\* Winter is written from two rows, one under a state of the list and one
\* under Unknown: the first stands in its state's table and in all-states.csv,
\* the second nowhere
C34_Witness ==
    /\ Written("Winter")
    /\ Len(StatesRows("Winter")) = 2
    /\ StatesRows("Winter")[1][1] = <<"U", "n", "k", "n", "o", "w", "n">>
    /\ StatesRows("Winter")[2][1] = StateMt
    /\ disk["Winter"]["all-states.csv"] = Some(<<StatesRows("Winter")[2][2]>>)
    /\ DOMAIN disk["Winter"]["by-state"] = {StateMt}

\* two rows under one state; one row under each of the two states, returned
\* in the other order than the states are sorted
C34_WitnessTwo ==
    /\ Written("Winter")
    /\ Len(StatesRows("Winter")) = 2
    /\ StatesRows("Winter")[1] # StatesRows("Winter")[2]
    /\ disk["Winter"]["by-state"]
          = (StateMt :> <<StatesRows("Winter")[1][2], StatesRows("Winter")[2][2]>>)
C34_WitnessBoth ==
    /\ Written("Winter")
    /\ Len(StatesRows("Winter")) = 2
    /\ StatesRows("Winter")[1][1] = StateMt
    /\ StatesRows("Winter")[2][1] = StateId
    /\ disk["Winter"]["all-states.csv"]
          = Some(<<StatesRows("Winter")[2][2], StatesRows("Winter")[1][2]>>)

\* an edition named Winter Olympics with a year before MIN_YEAR
EarlyWinter(e) == e[2] = "Winter" /\ e[3] \in OlympicsPrefixed /\ e[1] < MIN_YEAR

\* results.csv or a page the site answers with names such an edition
NamesEarlyWinter(c) ==
    \/ \E r \in Range(c.results) : EarlyWinter(r["Games"])
    \/ \E i \in DOMAIN c.answers :
          /\ c.answers[i] # None
          /\ \E l \in Range(c.answers[i][1]) : l.href # None /\ EarlyWinter(l.text.ed)

\* C38 as stated: on the same roster, results.csv and answers the two
\* scripts return the same season rows and the same no-match rows.
C38_SameRows ==
    compared # None => compared[1].winter = compared[1].combined

\* C38: the two scripts return the same season rows and no-match rows (or
\* both end with the same exception) when 2024-2026-us-results.csv does not
\* exist and neither results.csv nor a page names a Winter Olympics edition
\* before MIN_YEAR; filter-winter.py reads results.csv only and keeps
\* editions of any year.
C38_SameRowsFromMinYear ==
    compared # None =>
        LET c == compared[1]
        IN  c.new_results = None /\ ~NamesEarlyWinter(c) => c.winter = c.combined

\* the roster holds an indexed athlete, then one that is scraped; the two
\* scripts agree on a season row for each
C38_Witness ==
    /\ compared # None
    /\ compared[1].new_results = None
    /\ ~NamesEarlyWinter(compared[1])
    /\ compared[1].winter = compared[1].combined
    /\ ~compared[1].winter.raised
    /\ Len(compared[1].winter.season_rows) = 2
    /\ RowId(compared[1].athletes[1]) = "2"
    /\ RowId(compared[1].athletes[2]) = "1"

\* the scripts differ on an early edition of results.csv, on an early edition
\* of a page, and on an athlete found in 2024-2026-us-results.csv only
C38_WitnessEarlyIndex ==
    /\ compared # None
    /\ compared[1].new_results = None
    /\ compared[1].results = <<ResultRow("1", 1920, "Winter", "Olympics")>>
    /\ compared[1].athletes = <<Athlete("1", NameAB, BornMt)>>
    /\ compared[1].answers = <<>>
    /\ Len(compared[1].winter.season_rows) = 1
    /\ compared[1].combined.season_rows = <<>>
C38_WitnessEarlyPage ==
    /\ compared # None
    /\ compared[1].new_results = None
    /\ compared[1].athletes = <<Athlete("2", NameAB, BornId)>>
    /\ compared[1].answers = <<Some(PageEarlyWinter)>>
    /\ compared[1].winter # compared[1].combined
C38_WitnessNewResults ==
    /\ compared # None
    /\ compared[1].new_results # None
    /\ compared[1].athletes = <<Athlete("2", NameAB, BornId)>>
    /\ compared[1].answers = <<>>
    /\ compared[1].winter.no_match_rows # <<>>
    /\ compared[1].combined.season_rows # <<>>

\* a search by name: the first candidate's page fails, both scripts fail
C38_WitnessSearch ==
    /\ compared # None
    /\ compared[1].athletes = <<Athlete("", NameAB, BornMt)>>
    /\ compared[1].answers = <<Some(SearchPage(1)), Some(PageGamesBoth)>>
    /\ compared[1].winter = compared[1].combined
    /\ Len(compared[1].winter.season_rows) = 1

\* both scripts end with the exception of a page with a valueless href
C38_WitnessRaised ==
    /\ compared # None
    /\ compared[1].new_results = None
    /\ compared[1].winter.raised
    /\ compared[1].combined.raised

\* e reads <year> <Season> Olympics for the given season and a year from
\* MIN_YEAR on
ValidEdition(e, season) ==
    /\ Len(e) = 3
    /\ e[1] \in MIN_YEAR..9999
    /\ e[2] = season
    /\ e[3] = "Olympics"

\* the editions listed in the Games field of the p-th season row of the
\* running call
RowEditions(p) == SplitGames(cl.season_rows[p][2]["Games"])

\* strictly ascending, as Python sorts the strings
StrictlyAscending(l) == \A i, j \in DOMAIN l : i < j => EdLess(l[i], l[j])

C35_Witness ==
    /\ InClassify
    /\ Season = "Winter"
    /\ Len(cl.season_rows) = 2
    /\ trace.how[trace.rows_of[1]] = "known"
    /\ trace.how[trace.rows_of[2]] = "scrape"
    /\ Len(RowEditions(1)) = 2
    /\ Len(RowEditions(2)) = 2
C35_WitnessCachedValid ==
    /\ InClassify
    /\ Season = "Winter"
    /\ \E p \in DOMAIN cl.season_rows :
          /\ trace.how[trace.rows_of[p]] = "cached"
          /\ RowEditions(p) = <<<<2018, "Winter", "Olympics">>, <<2022, "Winter", "Olympics">>>>

\* the identifiers, other than the empty one, of the rows of a table
TableIds(rows) == {RowId(r) : r \in Range(rows)} \ {""}

\* C36: with the input tables unchanged, every identifier in a matched table
\* of a season (all-states, born-elsewhere, a state's file) when a later run
\* writes that season is in the same table after the write, whatever the
\* fetches of that run answered.
C36_IdsNeverShrink ==
    [][run >= 2 =>
        \A s \in Seasons :
            /\ TableIds(FileRows(disk[s], "all-states.csv"))
                   \subseteq TableIds(FileRows(disk'[s], "all-states.csv"))
            /\ TableIds(FileRows(disk[s], "us-born-elsewhere.csv"))
                   \subseteq TableIds(FileRows(disk'[s], "us-born-elsewhere.csv"))
            /\ \A st \in DOMAIN disk[s]["by-state"] :
                  /\ st \in DOMAIN disk'[s]["by-state"]
                  /\ TableIds(disk[s]["by-state"][st])
                         \subseteq TableIds(disk'[s]["by-state"][st])]_vars

\* the second run is complete, the Summer table holds an athlete who is not
\* in results.csv, and a fetch of that run failed or found nothing: the
\* run wrote a no-match row
C36_Witness ==
    /\ run = 2
    /\ pc = "done"
    /\ FileRows(disk["Summer"], "no-match.csv") # <<>>
    /\ \E r \in Range(FileRows(disk["Summer"], "all-states.csv")) :
          /\ RowId(r) # ""
          /\ RowId(r) \notin seen_ids
          /\ CacheGet(_output_cache, RowId(r), "Summer") # None

\* C37: the cache holds an entry for an athlete and a season exactly when a
\* matched table of that season's directory, as the run found it, has a row
\* with the athlete's identifier, whatever the other season's tables hold;
\* and a record with an identifier that is neither in the index nor in a
\* matched table of the season being resolved is put on the scrape list,
\* also when the cache holds the other season for it.
C37_SeasonOnly ==
    /\ pc \notin {"index", "cache"} =>
          \A s \in Seasons :
              ~Written(s) =>
                  \A aid \in (DOMAIN _output_cache) \cup MatchedIds(disk[s]) :
                      CacheGet(_output_cache, aid, s) # None
                          <=> (aid # "" /\ aid \in MatchedIds(disk[s]))
    /\ InClassify =>
          \A k \in 1..Len(Athletes) :
              LET aid == RowId(Athletes[k])
              IN  (/\ Passed(k)
                   /\ aid # ""
                   /\ aid \notin seen_ids
                   /\ aid \notin MatchedIds(disk[Season]))
                  => /\ trace.how[k] = "scrape"
                     /\ Scraped(k)

\* the other of the two seasons
OtherSeason(s) == IF s = "Winter" THEN "Summer" ELSE "Winter"

\* in the call for season s a fetch has been made for an athlete outside the
\* index for whom the cache holds the other season only
CachedOtherSeasonOnly(s) ==
    /\ InClassify
    /\ Season = s
    /\ \E k \in 1..Len(Athletes) :
          LET aid == RowId(Athletes[k])
          IN  /\ Passed(k)
              /\ aid # ""
              /\ aid \notin seen_ids
              /\ CacheGet(_output_cache, aid, OtherSeason(s)) # None
              /\ CacheGet(_output_cache, aid, s) = None
              /\ trace.fetched[k]

C37_Witness == CachedOtherSeasonOnly("Summer")
C37_WitnessWinter == CachedOtherSeasonOnly("Winter")

\* a call of classify_athletes is running, its fetches attempt by attempt
InCall == pc \in {"loop", "fetch", "attempt", "request", "returned", "fetched", "outcome"}

\* the call has ended: it returned, or an exception left it
CallOver == pc \in {"stage", "crashed"}

\* the record the scrape loop is at
ScrapeRecord == cl.needs_scrape[cl.j]

\* the most _fetch calls the resolution of the record of the scrape loop may
\* have made so far
FetchBound ==
    IF RowId(ScrapeRecord) # "" THEN 1
    ELSE IF NameParts(ScrapeRecord["Used name"]) = <<>> THEN 0
    ELSE IF trace.searched = None \/ trace.searched[1] = None THEN 1
    ELSE 1 + Len(ProfileLinks)

\* the _fetch calls of the running call of classify_athletes are counted
FetchCounts ==
    (InCall /\ cl.i > Len(Athletes) /\ cl.j <= Len(cl.needs_scrape)) =>
        /\ trace.nfetch <= FetchBound
        /\ (pc = "outcome" /\ RowId(ScrapeRecord) # "") => trace.nfetch = 1
        /\ (pc = "outcome" /\ NameParts(ScrapeRecord["Used name"]) = <<>>
               /\ RowId(ScrapeRecord) = "") => trace.nfetch = 0

\* no fetch is made for a record that is not on the scrape list
NoFetchOffList ==
    InCall => \A k \in 1..Len(Athletes) : trace.fetched[k] => Scraped(k)

\* the attempts of the _fetch call in progress or last returned
FetchAttempts ==
    /\ ft.attempt <= MAX_RETRIES
    /\ Len(ft.slept) <= MAX_RETRIES
    /\ Len(ft.answers) <= MAX_RETRIES

\* C39: a call of classify_athletes comes to its end whatever the answers
\* are; the resolution of a record with an identifier makes exactly one
\* _fetch call, that of a record without one at most one for the search page
\* and one for each athlete-profile link of that page, none when the name is
\* blank, and no fetch is made for a record outside the scrape list; a
\* _fetch call makes at most MAX_RETRIES attempts.
C39_TerminatesWithinBounds ==
    /\ [](FetchCounts /\ NoFetchOffList /\ FetchAttempts)
    /\ InCall ~> CallOver

\* the resolution by name of a record has made the most calls it may, three,
\* and the last of them has made MAX_RETRIES attempts
C39_Witness ==
    /\ pc = "returned"
    /\ call = "candidate"
    /\ RowId(ScrapeRecord) = ""
    /\ trace.nfetch = 1 + MaxCandidates
    /\ Len(ft.answers) = MAX_RETRIES
C39_WitnessId ==
    /\ pc = "outcome"
    /\ RowId(ScrapeRecord) # ""
    /\ trace.nfetch = 1
    /\ Len(ft.answers) = MAX_RETRIES
C39_WitnessBlank ==
    /\ pc = "outcome"
    /\ RowId(ScrapeRecord) = ""
    /\ NameParts(ScrapeRecord["Used name"]) = <<>>
C39_WitnessOver ==
    /\ pc = "stage"
    /\ stage = 3
    /\ script[1].no_match_rows # <<>>
    /\ script[2].season_rows # <<>>

\* the running olympians-by-state.py
By == bystate[1]

\* the positions in athletes of the rows in the list of state st
InStateList(st) ==
    IF st \in DOMAIN By.state_athletes THEN Range(By.state_athletes[st]) ELSE {}

InElsewhere == Range(By.us_noc_born_elsewhere)

\* the number of times row k stands in some state's list
TimesInStateLists(k) ==
    Cardinality({sp \in UNION {{st} \X DOMAIN By.state_athletes[st] :
                                   st \in DOMAIN By.state_athletes} :
                     By.state_athletes[sp[1]][sp[2]] = k})

\* C40: a row is in the list of state st only if its Born field parses to st
\* and the code USA and st is in the states set; it is in the born-elsewhere
\* list only if its NOC field contains United States and it is not
\* state-born; no row is in both, none is in the lists of two states, and
\* none is twice in a list.
C40_Disjoint ==
    bystate # None =>
        /\ \A st \in DOMAIN By.state_athletes :
              \A k \in InStateList(st) :
                  LET p == parse_born(BioGet(By.athletes[k], "Born"))
                  IN  /\ p # None
                      /\ p[1] = <<st, CountryUSA>>
                      /\ st \in By.states_set
        /\ \A k \in InElsewhere :
              /\ Contains(BioGet(By.athletes[k], "NOC"), UnitedStates)
              /\ ~is_us_state_born(By.athletes[k], By.states_set)
              /\ \A st \in DOMAIN By.state_athletes : k \notin InStateList(st)
        /\ \A k \in DOMAIN By.athletes :
              /\ TimesInStateLists(k) <= 1
              /\ Cardinality({q \in DOMAIN By.us_noc_born_elsewhere :
                                  By.us_noc_born_elsewhere[q] = k}) <= 1
              /\ k >= By.i => (TimesInStateLists(k) = 0 /\ k \notin InElsewhere)

\* the loop is over: a state-born row with the NOC United States is in its
\* state's list only, and rows are in the born-elsewhere list for a Born
\* field that does not parse, for a USA state outside the list and for a
\* listed state's name with another country's code
C40_Witness ==
    /\ bystate # None
    /\ By.i > Len(By.athletes)
    /\ \E k \in DOMAIN By.athletes :
          /\ By.athletes[k] = Bio("1", BornMt, NocUS)
          /\ k \in InStateList(StateMt)
          /\ k \notin InElsewhere
    /\ \E k \in InElsewhere : By.athletes[k] = Bio("5", BornUsaOther, NocUS)
    /\ \E k \in InElsewhere : By.athletes[k] \in {Bio("4", Blank, NocChinaUS),
                                                  Bio("6", BornIdFra, NocVirgin)}
C40_WitnessTwoStates ==
    /\ bystate # None
    /\ By.i > Len(By.athletes)
    /\ InStateList(StateMt) # {}
    /\ InStateList(StateId) # {}
    /\ \E k \in DOMAIN By.athletes : k \notin InElsewhere /\ TimesInStateLists(k) = 0


====
